---- MODULE Spec2Model ----
(***************************************************************************)
(* Bot lifecycle reconciliation engine of bot_monitor.py: the Log          *)
(* Classifier (_determine_stop_reason), the Trade Event Extractor          *)
(* (_parse_trade_logs_and_notify), the heartbeat throttle                  *)
(* (_handle_running_bot), the Reconciler (_synchronize_active_trades,      *)
(* _process_active_trades) and the scheduler loop (run), over the          *)
(* Registry Store of trade_storage.py.  The control plane, the clock and   *)
(* the Telegram messenger are the environment.                             *)
(***************************************************************************)
EXTENDS Integers, Sequences, FiniteSets, TLC

VARIABLES
    statuses,           \* control plane: 'data' of get_all_bot_statuses()
    storage,            \* content of active_trades.json (list of records)
    pc,                 \* position of run(): "sync", "process", "sleep", "exited"
    active_trades,      \* list returned by _synchronize_active_trades
    bot_statuses_data,  \* status map returned by _synchronize_active_trades
    idx,                \* next element of active_trades in the for loop
    trades_to_keep,     \* local list of _process_active_trades
    last_active,        \* self._last_active_message_time
    processed_logs,     \* self._last_processed_trade_logs
    now,                \* value the injected time_provider returns
    cycle,              \* number of the current pass of the while loop
    sent,               \* calls of notifier.notify made in the current pass
    archive_calls,      \* calls of stop_and_archive_bot made in the current pass
    pass_log,           \* per processed record of the current pass: what happened
    dispatched,         \* every trade_update handed to notify so far (all passes)
    heartbeats,         \* every running status update notify returned from so far
    removed_ever,       \* instances archived and removed in some finished pass
    readded,            \* instances admitted again after such a removal
    faults,             \* notify calls that did not return True so far
    initial_names,      \* instance names the registry file held at start
    pass_times,         \* clock value of every pass started so far
    fetch_status,       \* 'status' of the get_all_bot_statuses response of the current pass
    file_state,         \* the registry file: "ok" (storage is its content), "missing" or "corrupt"
    closed,             \* calls of hummingbot_manager.close_client made by run
    in_general,         \* classifier harness: general_logs argument
    in_error,           \* classifier harness: error_logs argument
    out_reason          \* classifier harness: returned stop reason

vars == <<statuses, storage, pc, active_trades, bot_statuses_data, idx,
          trades_to_keep, last_active, processed_logs, now, cycle, sent,
          archive_calls, pass_log, dispatched, heartbeats, removed_ever,
          readded, faults, initial_names, pass_times, fetch_status, file_state, closed,
          in_general, in_error, out_reason>>

----------------------------------------------------------------------------
(* Bounds of the model *)

MaxCycles == 3         \* passes of the while loop explored
MaxFaults == 1         \* notify calls that raise or return False, in total
MaxLogLen == 3         \* longest general log list given to the classifier
MaxErrLen == 2         \* longest error log list given to the classifier

(* Program constants *)

HeartbeatSeconds == 300   \* _handle_running_bot: total_seconds() >= 300
CheckInterval == 10       \* BotMonitor.__init__: check_interval_seconds

None == "None"               \* Python's None, where a string is expected

----------------------------------------------------------------------------
(* Log messages.  A message is its text; what the code reads of a text is  *)
(* which phrases its lower-cased form contains and what the fill regex     *)
(* captures from it.                                                       *)

MsgStarting == "Starting Node <hbot>"
MsgClosed == "All positions closed."
MsgFixedSL == "Fixed stop loss hit."
MsgStopping == "Stopping the strategy..."
MsgClosedStopping == "All positions closed. Stopping the strategy."
MsgBuyX == "The BUY order x-1 amounting to 0.5/0.5 ETH has been filled at 100.0 USDC."
MsgBuyY == "The BUY order x-2 amounting to 0.5/0.5 ETH has been filled at 100.0 USDC."
MsgSell == "The SELL order x-3 amounting to 0.5/0.5 ETH has been filled at 110.0 USDC."
MsgException == "An unhandled exception occurred: DivisionByZeroError."
MsgNotReady == "binance is not ready."
\* an error line of 134 characters
MsgLongError == "ERROR: order book stream for ETH-USDC disconnected, reconnect attempt 5 of 5 failed; the strategy cannot continue without market data."

ClassifierMsgs ==
    {"", MsgStarting, MsgClosed, MsgFixedSL, MsgStopping, MsgClosedStopping, MsgSell}
ErrorMsgs == {MsgException, MsgNotReady, MsgLongError}

\* msg.lower(): the lower-cased text
Lower(msg) ==
    CASE msg = MsgStarting -> "starting node <hbot>"
      [] msg = MsgClosed -> "all positions closed."
      [] msg = MsgFixedSL -> "fixed stop loss hit."
      [] msg = MsgStopping -> "stopping the strategy..."
      [] msg = MsgClosedStopping -> "all positions closed. stopping the strategy."
      [] msg = MsgBuyX -> "the buy order x-1 amounting to 0.5/0.5 eth has been filled at 100.0 usdc."
      [] msg = MsgBuyY -> "the buy order x-2 amounting to 0.5/0.5 eth has been filled at 100.0 usdc."
      [] msg = MsgSell -> "the sell order x-3 amounting to 0.5/0.5 eth has been filled at 110.0 usdc."
      [] msg = MsgException -> "an unhandled exception occurred: divisionbyzeroerror."
      [] msg = MsgNotReady -> "binance is not ready."
      [] msg = MsgLongError -> "error: order book stream for eth-usdc disconnected, reconnect attempt 5 of 5 failed; the strategy cannot continue without market data."
      [] OTHER -> ""

\* the phrases of the classifier that occur in a lower-cased text
PhrasesIn(low) ==
    CASE low = "all positions closed." -> {"all positions closed"}
      [] low = "fixed stop loss hit." -> {"fixed stop loss hit"}
      [] low = "stopping the strategy..." -> {"stopping the strategy"}
      [] low = "all positions closed. stopping the strategy." ->
            {"all positions closed", "stopping the strategy"}
      [] low = "an unhandled exception occurred: divisionbyzeroerror." -> {"exception"}
      [] low = "error: order book stream for eth-usdc disconnected, reconnect attempt 5 of 5 failed; the strategy cannot continue without market data." -> {"error"}
      [] OTHER -> {}

CompletionPhrases ==
    {"fixed stop loss hit", "take profit hit", "all positions closed", "trade completed"}
StopPhrase == "stopping the strategy"
ErrorPhrases == {"error", "exception"}

\* log_entry.get('msg', '')
MsgOf(log_entry) == IF "msg" \in DOMAIN log_entry THEN log_entry.msg ELSE ""
\* log_entry.get('timestamp', '')
TimestampOf(log_entry) ==
    IF "timestamp" \in DOMAIN log_entry THEN log_entry.timestamp ELSE ""

Line(m, t) == [msg |-> m, timestamp |-> t]

----------------------------------------------------------------------------
(* Log Classifier: BotMonitor._determine_stop_reason *)

TradeCompleted == "Trade Completed"
ManualStop == "Manual Stop/Strategy Stopped"
UnknownReason == "Unknown Reason"
\* msg[:100]: the first 100 characters of a lower-cased text
First100(low) ==
    CASE low = "error: order book stream for eth-usdc disconnected, reconnect attempt 5 of 5 failed; the strategy cannot continue without market data." ->
            "error: order book stream for eth-usdc disconnected, reconnect attempt 5 of 5 failed; the strategy ca"
      [] OTHER -> low

\* mutant: the whole text, not its first 100 characters
ErrorReasonWhole(low) == "Error: " \o low \o "..."

\* f"Error: {msg[:100]}..."
ErrorReason(low) == "Error: " \o First100(low) \o "..."

IsCompletionMsg(low) == PhrasesIn(low) \cap CompletionPhrases # {}
IsStopMsg(low) == StopPhrase \in PhrasesIn(low)

\* mutant: the stop phrase is tested before the completion phrases
ScanGeneralStopFirst(general_logs, i) ==
    LET F[k \in 0..Len(general_logs)] ==
            IF k = 0 THEN UnknownReason
            ELSE LET low == Lower(MsgOf(general_logs[k]))
                 IN  IF IsStopMsg(low) THEN ManualStop
                     ELSE IF IsCompletionMsg(low) THEN TradeCompleted
                     ELSE F[k - 1]
    IN  F[i]

\* the loop over reversed(general_logs), from element i down to 1
ScanGeneral(general_logs, i) ==
    LET F[k \in 0..Len(general_logs)] ==
            IF k = 0 THEN UnknownReason
            ELSE LET low == Lower(MsgOf(general_logs[k]))
                 IN  IF IsCompletionMsg(low) THEN TradeCompleted
                     ELSE IF IsStopMsg(low) THEN ManualStop
                     ELSE F[k - 1]
    IN  F[i]

\* the loop over reversed(error_logs), from element i down to 1
ScanErrors(error_logs, i) ==
    LET F[k \in 0..Len(error_logs)] ==
            IF k = 0 THEN UnknownReason
            ELSE LET low == Lower(MsgOf(error_logs[k]))
                 IN  IF PhrasesIn(low) \cap ErrorPhrases # {} THEN ErrorReason(low)
                     ELSE F[k - 1]
    IN  F[i]

determine_stop_reason(general_logs, error_logs) ==
    LET stop_reason == ScanGeneral(general_logs, Len(general_logs))
    IN  IF error_logs # <<>> /\ stop_reason = UnknownReason
        THEN ScanErrors(error_logs, Len(error_logs))
        ELSE stop_reason

----------------------------------------------------------------------------
(* Trade Event Extractor: BotMonitor._parse_trade_logs_and_notify *)

\* re.search(r"(BUY|SELL) order .*? amounting to ([\d\.]+)/[\d\.]+ ([A-Z]+)
\*             has been filled at ([\d\.]+) ([A-Z]+)\.", log_msg) and .groups()
TradeMatch(log_msg) ==
    CASE log_msg = MsgBuyX ->
            [matched |-> TRUE, trade_type |-> "BUY", amount |-> "0.5",
             base_asset |-> "ETH", price |-> "100.0", quote_asset |-> "USDC"]
      [] log_msg = MsgBuyY ->
            [matched |-> TRUE, trade_type |-> "BUY", amount |-> "0.5",
             base_asset |-> "ETH", price |-> "100.0", quote_asset |-> "USDC"]
      [] log_msg = MsgSell ->
            [matched |-> TRUE, trade_type |-> "SELL", amount |-> "0.5",
             base_asset |-> "ETH", price |-> "110.0", quote_asset |-> "USDC"]
      [] OTHER -> [matched |-> FALSE]

\* f"{base_asset}-{quote_asset}"
PairOf(m) == m.base_asset \o "-" \o m.quote_asset

\* f"{instance_name}-{trading_pair}-{trade_type}-{amount}-{price}-{log_timestamp}"
TradeIdentifier(instance_name, m, log_timestamp) ==
    instance_name \o "-" \o PairOf(m) \o "-" \o m.trade_type \o "-" \o m.amount
        \o "-" \o m.price \o "-" \o log_timestamp

\* what the n-th notify call made for one record does: the messenger's answer
\* (True / False) or an exception raised out of notify
Outcome(n, raise_at, fail_at) ==
    IF n = raise_at THEN "raise" ELSE IF n = fail_at THEN "false" ELSE "true"

TradeUpdate(chat_id, instance_name, m, log_timestamp, outcome) ==
    [message_type |-> "trade_update", chat_id |-> chat_id,
     instance_name |-> instance_name, trading_pair |-> PairOf(m),
     trade_type |-> m.trade_type, price |-> m.price, amount |-> m.amount,
     timestamp |-> log_timestamp, outcome |-> outcome]

\* mutant: the identifier is recorded whether or not it is new, and every
\* matching line is notified
ParseStepNoDedup(p, chat_id, instance_name, log_entry, raise_at, fail_at) ==
    LET m == TradeMatch(MsgOf(log_entry))
        ts == TimestampOf(log_entry)
        id == TradeIdentifier(instance_name, m, ts)
        out == Outcome(Len(p.calls) + 1, raise_at, fail_at)
    IN  IF p.raised \/ ~m.matched THEN p
        ELSE [seen |-> IF out = "raise" THEN p.seen ELSE p.seen \cup {id},
              calls |-> Append(p.calls, TradeUpdate(chat_id, instance_name, m, ts, out)),
              raised |-> out = "raise"]

\* one iteration of "for log_entry in general_logs"; p.raised: notify has
\* raised and the loop is left
\* mutant: the identifier is recorded before notify is awaited
ParseStepRecordFirst(p, chat_id, instance_name, log_entry, raise_at, fail_at) ==
    LET m == TradeMatch(MsgOf(log_entry))
        ts == TimestampOf(log_entry)
        id == TradeIdentifier(instance_name, m, ts)
        out == Outcome(Len(p.calls) + 1, raise_at, fail_at)
    IN  IF p.raised \/ ~m.matched THEN p
        ELSE IF id \in p.seen THEN p
        ELSE [seen |-> p.seen \cup {id},
              calls |-> Append(p.calls, TradeUpdate(chat_id, instance_name, m, ts, out)),
              raised |-> out = "raise"]

ParseStep(p, chat_id, instance_name, log_entry, raise_at, fail_at) ==
    LET m == TradeMatch(MsgOf(log_entry))
        ts == TimestampOf(log_entry)
        id == TradeIdentifier(instance_name, m, ts)
        out == Outcome(Len(p.calls) + 1, raise_at, fail_at)
    IN  IF p.raised \/ ~m.matched THEN p
        ELSE IF id \in p.seen THEN p
        ELSE [seen |-> IF out = "raise" THEN p.seen ELSE p.seen \cup {id},
              calls |-> Append(p.calls, TradeUpdate(chat_id, instance_name, m, ts, out)),
              raised |-> out = "raise"]

\* mutant: the log list is gone through from its newest entry
parse_trade_logs_and_notify_reversed(chat_id, instance_name, general_logs, seen0, raise_at, fail_at) ==
    LET F[k \in 0..Len(general_logs)] ==
            IF k = 0 THEN [seen |-> seen0, calls |-> <<>>, raised |-> FALSE]
            ELSE ParseStep(F[k - 1], chat_id, instance_name,
                           general_logs[Len(general_logs) + 1 - k], raise_at, fail_at)
    IN  F[Len(general_logs)]

\* seen0: self._last_processed_trade_logs[instance_name] (set() when new)
parse_trade_logs_and_notify(chat_id, instance_name, general_logs, seen0, raise_at, fail_at) ==
    LET F[k \in 0..Len(general_logs)] ==
            IF k = 0 THEN [seen |-> seen0, calls |-> <<>>, raised |-> FALSE]
            ELSE ParseStep(F[k - 1], chat_id, instance_name, general_logs[k],
                           raise_at, fail_at)
    IN  F[Len(general_logs)]

----------------------------------------------------------------------------
(* Registry Store: trade_storage.py *)

\* dict.get(key, default)
Get(d, key, default) == IF key \in DOMAIN d THEN d[key] ELSE default

\* trade.get('instance_name')
NameOf(trade) == Get(trade, "instance_name", None)
\* mutant: the for loop skips no record
HasNameAlways(trade) == TRUE

\* "if not instance_name"
HasName(trade) == NameOf(trade) # None /\ NameOf(trade) # ""

\* {trade.get('instance_name') for trade in active_trades if trade.get('instance_name')}
NamesIn(trades) == {NameOf(trades[i]) : i \in {j \in DOMAIN trades : HasName(trades[j])}}

\* mutant: the entry is left in the file
remove_trade_entry_noop(file, instance_name) == file

\* TradeStorage._default_remove_trade_entry: load, filter, save
remove_trade_entry(file, instance_name) ==
    SelectSeq(file, LAMBDA trade : NameOf(trade) # instance_name)

----------------------------------------------------------------------------
(* Status handlers of BotMonitor.  Each returns the notify calls it made,  *)
(* the throttle map it leaves and whether notify raised out of it.  n is   *)
(* the number of notify calls made for the record before the handler.      *)

StatusUpdate(trade, instance_name, status, stop_reason, outcome) ==
    [message_type |-> "bot_status_update", chat_id |-> Get(trade, "chat_id", None),
     instance_name |-> instance_name,
     trading_pair |-> Get(trade, "trading_pair", None),
     status |-> status, stop_reason |-> stop_reason, outcome |-> outcome]

\* mutant: the alert goes to the configured chat, not to the record's chat
NotFoundAlertDefaultChat(trade, instance_name, outcome) ==
    [message_type |-> "bot_not_found_alert", chat_id |-> "12345",
     instance_name |-> instance_name,
     trading_pair |-> Get(trade, "trading_pair", None), outcome |-> outcome]

NotFoundAlert(trade, instance_name, outcome) ==
    [message_type |-> "bot_not_found_alert", chat_id |-> Get(trade, "chat_id", None),
     instance_name |-> instance_name,
     trading_pair |-> Get(trade, "trading_pair", None), outcome |-> outcome]

ErrorMessage(trade, instance_name, outcome) ==
    [message_type |-> "error", chat_id |-> Get(trade, "chat_id", None),
     instance_name |-> instance_name, outcome |-> outcome]

\* mutant: the timestamp is not removed
PopNothing(last, instance_name) == last

\* self._last_active_message_time.pop(instance_name, None)
Pop(last, instance_name) ==
    [k \in DOMAIN last \ {instance_name} |-> last[k]]

\* mutant: the assignment stamps every instance
PutEvery(last, instance_name, current_time) ==
    [k \in DOMAIN last \cup {instance_name} |-> current_time]

\* self._last_active_message_time[instance_name] = current_time
Put(last, instance_name, current_time) ==
    [k \in DOMAIN last \cup {instance_name} |->
        IF k = instance_name THEN current_time ELSE last[k]]

\* mutant: the cooldown is not consulted
HeartbeatDueAlways(last, instance_name, current_time) == TRUE

\* "not last_sent or (current_time - last_sent).total_seconds() >= 300"
HeartbeatDue(last, instance_name, current_time) ==
    \/ instance_name \notin DOMAIN last
    \/ current_time - last[instance_name] >= HeartbeatSeconds

handle_running_bot(trade, instance_name, last, current_time, n, raise_at, fail_at) ==
    LET out == Outcome(n + 1, raise_at, fail_at)
    IN  IF HeartbeatDue(last, instance_name, current_time)
        THEN [calls |-> <<StatusUpdate(trade, instance_name, "running", None, out)>>,
              last |-> IF out = "raise" THEN last
                       ELSE Put(last, instance_name, current_time),
              raised |-> out = "raise"]
        ELSE [calls |-> <<>>, last |-> last, raised |-> FALSE]

\* mutant: the stop reason is not passed on to the notification
handle_stopped_bot_no_reason(trade, instance_name, status_response, last, n, raise_at, fail_at) ==
    [calls |-> <<StatusUpdate(trade, instance_name, "stopped", None,
                              Outcome(n + 1, raise_at, fail_at))>>,
     last |-> IF Outcome(n + 1, raise_at, fail_at) = "raise" THEN last
              ELSE Pop(last, instance_name),
     raised |-> Outcome(n + 1, raise_at, fail_at) = "raise"]

\* mutant: the stopped notification is sent only for an instance that had a
\* heartbeat timestamp, that is once after it was last seen running
handle_stopped_bot_once(trade, instance_name, status_response, last, n, raise_at, fail_at) ==
    IF instance_name \in DOMAIN last
    THEN [calls |-> <<StatusUpdate(trade, instance_name, "stopped",
                          determine_stop_reason(status_response.general_logs,
                                                status_response.error_logs),
                          Outcome(n + 1, raise_at, fail_at))>>,
          last |-> IF Outcome(n + 1, raise_at, fail_at) = "raise" THEN last
                   ELSE Pop(last, instance_name),
          raised |-> Outcome(n + 1, raise_at, fail_at) = "raise"]
    ELSE [calls |-> <<>>, last |-> last, raised |-> FALSE]

handle_stopped_bot(trade, instance_name, status_response, last, n, raise_at, fail_at) ==
    LET out == Outcome(n + 1, raise_at, fail_at)
        stop_reason == determine_stop_reason(status_response.general_logs,
                                             status_response.error_logs)
    IN  [calls |-> <<StatusUpdate(trade, instance_name, "stopped", stop_reason, out)>>,
         last |-> IF out = "raise" THEN last ELSE Pop(last, instance_name),
         raised |-> out = "raise"]

handle_not_found_bot(trade, instance_name, last, n, raise_at, fail_at) ==
    LET out == Outcome(n + 1, raise_at, fail_at)
    IN  [calls |-> <<NotFoundAlert(trade, instance_name, out)>>,
         last |-> IF out = "raise" THEN last ELSE Pop(last, instance_name),
         raised |-> out = "raise"]

----------------------------------------------------------------------------
(* Reconciler: BotMonitor._process_active_trades, one record *)

\* mutant: an instance the map does not list counts as not_found
StatusResponseNotFound(statuses_data, instance_name) ==
    LET d == IF instance_name \in DOMAIN statuses_data
             THEN statuses_data[instance_name] ELSE [status |-> "not_found"]
    IN  [status |-> Get(d, "status", None),
         general_logs |-> Get(d, "general_logs", <<>>),
         error_logs |-> Get(d, "error_logs", <<>>)]

\* bot_statuses_data.get(instance_name, {}) with its .get('status'),
\* .get('general_logs', []) and .get('error_logs', [])
StatusResponse(statuses_data, instance_name) ==
    LET d == IF instance_name \in DOMAIN statuses_data
             THEN statuses_data[instance_name] ELSE [x \in {} |-> None]
    IN  [status |-> Get(d, "status", None),
         general_logs |-> Get(d, "general_logs", <<>>),
         error_logs |-> Get(d, "error_logs", <<>>)]

ArchiveCall(instance_name, ok) == [instance_name |-> instance_name, ok |-> ok]

\* mutant: a record whose archive call failed is kept
KeepAfterArchiveFailed(archive_ok) == archive_ok = "fail"

\* the branches that archive never append to trades_to_keep: what
\* stop_and_archive_bot returned is not looked at
KeepAfterArchive(archive_ok) == FALSE

\* mutant: a record with an unknown status is not kept
KeepUnknownStatusNever(bot_actual_status) == FALSE

\* the final else of the chain: trades_to_keep.append(trade), whatever the
\* status value is
KeepUnknownStatus(bot_actual_status) == TRUE

\* mutant: every stopped bot is archived, whatever the stop reason
ArchivesOnStopAlways(stop_reason) == TRUE

\* "if stop_reason == "Trade Completed"" of the stopped and success branches
ArchivesOnStop(stop_reason) == stop_reason = TradeCompleted

\* the if/elif chain on bot_actual_status, after the trade logs were parsed
\* without an exception (p is what the parse left)
Dispatch(trade, instance_name, resp, p, last, file, current_time, raise_at, fail_at, archive_ok) ==
    LET n == Len(p.calls)
        stop_reason == determine_stop_reason(resp.general_logs, resp.error_logs)
        kept(h) == [calls |-> p.calls \o h.calls, last |-> h.last, storage |-> file,
                    archives |-> <<>>, keep |-> TRUE, raised |-> h.raised]
        gone(h) == IF archive_ok = "raise"
                   THEN [calls |-> p.calls, last |-> last, storage |-> file,
                         archives |-> <<ArchiveCall(instance_name, archive_ok)>>,
                         keep |-> FALSE, raised |-> TRUE]
                   ELSE [calls |-> p.calls \o h.calls, last |-> h.last,
                         storage |-> remove_trade_entry(file, instance_name),
                         archives |-> <<ArchiveCall(instance_name, archive_ok)>>,
                         keep |-> KeepAfterArchive(archive_ok), raised |-> h.raised]
        none == [calls |-> <<>>, last |-> last, raised |-> FALSE]
    IN  CASE resp.status = "running" ->
               kept(handle_running_bot(trade, instance_name, last, current_time,
                                       n, raise_at, fail_at))
          [] resp.status = "stopped" ->
               IF ArchivesOnStop(stop_reason)
               THEN gone(handle_stopped_bot(trade, instance_name, resp, last,
                                            n, raise_at, fail_at))
               ELSE kept(handle_stopped_bot(trade, instance_name, resp, last,
                                            n, raise_at, fail_at))
          [] resp.status = "not_found" ->
               gone(handle_not_found_bot(trade, instance_name, last,
                                         n, raise_at, fail_at))
          [] resp.status = "success" ->
               IF ArchivesOnStop(stop_reason)
               THEN gone(handle_stopped_bot(trade, instance_name, resp, last,
                                            n, raise_at, fail_at))
               ELSE kept(none)
          [] OTHER -> [kept(none) EXCEPT !.keep = KeepUnknownStatus(resp.status)]

\* mutant: the except clause does not keep the record
CaughtDrops(trade, instance_name, seen, d, err_out) ==
    [processed_logs |-> seen,
     last_active |-> d.last,
     storage |-> d.storage,
     archives |-> d.archives,
     calls |-> IF d.raised
               THEN Append(d.calls, ErrorMessage(trade, instance_name, err_out))
               ELSE d.calls,
     keep |-> IF d.raised THEN FALSE ELSE d.keep,
     raised |-> d.raised,
     escaped |-> d.raised /\ err_out = "raise"]

\* the except clause closing the try block of one trade: d is what the try
\* block did.  err_out: what the notify call of the except clause does, if it
\* is reached; escaped: that call raised too, and the exception leaves the
\* method.
Caught(trade, instance_name, seen, d, err_out) ==
    [processed_logs |-> seen,
     last_active |-> d.last,
     storage |-> d.storage,
     archives |-> d.archives,
     calls |-> IF d.raised
               THEN Append(d.calls, ErrorMessage(trade, instance_name, err_out))
               ELSE d.calls,
     keep |-> IF d.raised THEN err_out # "raise" ELSE d.keep,
     raised |-> d.raised,
     escaped |-> d.raised /\ err_out = "raise"]

\* the try block after _parse_trade_logs_and_notify: p is what the parse left
TryBlock(trade, instance_name, resp, p, last, file, current_time, raise_at, fail_at, archive_ok) ==
    IF p.raised
    THEN [calls |-> p.calls, last |-> last, storage |-> file,
          archives |-> <<>>, keep |-> FALSE, raised |-> TRUE]
    ELSE Dispatch(trade, instance_name, resp, p, last, file, current_time,
                  raise_at, fail_at, archive_ok)

\* self._last_processed_trade_logs after the parse of one instance's logs
SeenAfter(seen_map, instance_name, seen) ==
    [k \in DOMAIN seen_map \cup {instance_name} |->
        IF k = instance_name THEN seen ELSE seen_map[k]]

SeenBefore(seen_map, instance_name) ==
    IF instance_name \in DOMAIN seen_map THEN seen_map[instance_name] ELSE {}

ProcessParsed(trade, instance_name, resp, p, seen_map, last, file, current_time, raise_at, fail_at, err_out, archive_ok) ==
    Caught(trade, instance_name, SeenAfter(seen_map, instance_name, p.seen),
           TryBlock(trade, instance_name, resp, p, last, file, current_time,
                    raise_at, fail_at, archive_ok),
           err_out)

\* mutant: the trade logs are parsed for running instances only
ProcessResponseRunningOnly(trade, instance_name, resp, seen_map, last, file, current_time, raise_at, fail_at, err_out, archive_ok) ==
    ProcessParsed(trade, instance_name, resp,
                  parse_trade_logs_and_notify(Get(trade, "chat_id", None),
                      instance_name,
                      IF resp.status = "running" THEN resp.general_logs ELSE <<>>,
                      SeenBefore(seen_map, instance_name), raise_at, fail_at),
                  seen_map, last, file, current_time,
                  raise_at, fail_at, err_out, archive_ok)

ProcessResponse(trade, instance_name, resp, seen_map, last, file, current_time, raise_at, fail_at, err_out, archive_ok) ==
    ProcessParsed(trade, instance_name, resp,
                  parse_trade_logs_and_notify(Get(trade, "chat_id", None),
                      instance_name, resp.general_logs,
                      SeenBefore(seen_map, instance_name), raise_at, fail_at),
                  seen_map, last, file, current_time,
                  raise_at, fail_at, err_out, archive_ok)

\* the body of the for loop for one trade that has a name
ProcessTrade(trade, statuses_data, seen_map, last, file, current_time, raise_at, fail_at, err_out, archive_ok) ==
    ProcessResponse(trade, NameOf(trade), StatusResponse(statuses_data, NameOf(trade)),
                    seen_map, last, file, current_time,
                    raise_at, fail_at, err_out, archive_ok)

----------------------------------------------------------------------------
(* Reconciler and scheduler loop: the steps of BotMonitor.run *)

TELEGRAM_CHAT_ID == "12345"
EmptyMap == [x \in {} |-> None]

\* the orders in which "for instance_name in bots_to_add" can visit a set
Orders(S) == {f \in [1..Cardinality(S) -> S] : \A i, j \in DOMAIN f : f[i] = f[j] => i = j}

\* mutant: no placeholder where the detail lacks the trading pair
NewTradeNoPlaceholder(instance_name, bot_detail) ==
    [instance_name |-> instance_name,
     chat_id |-> "12345",
     trading_pair |-> Get(bot_detail, "trading_pair", None),
     order_amount_usd |-> Get(bot_detail, "order_amount_usd", 0),
     trailing_stop_loss_delta |-> Get(bot_detail, "trailing_stop_loss_delta", 0),
     take_profit_delta |-> Get(bot_detail, "take_profit_delta", 0),
     fixed_stop_loss_delta |-> Get(bot_detail, "fixed_stop_loss_delta", 0)]

\* new_trade_data of _synchronize_active_trades
NewTrade(instance_name, bot_detail) ==
    [instance_name |-> instance_name,
     chat_id |-> TELEGRAM_CHAT_ID,
     trading_pair |-> Get(bot_detail, "trading_pair", "UNKNOWN"),
     order_amount_usd |-> Get(bot_detail, "order_amount_usd", 0),
     trailing_stop_loss_delta |-> Get(bot_detail, "trailing_stop_loss_delta", 0),
     take_profit_delta |-> Get(bot_detail, "take_profit_delta", 0),
     fixed_stop_loss_delta |-> Get(bot_detail, "fixed_stop_loss_delta", 0)]

\* mutant: every reported instance is admitted, tracked already or not
BotsToAddAll(running_bot_names, active_trade_names) == running_bot_names

\* mutant: nothing new is admitted
BotsToAddNone(running_bot_names, active_trade_names) == {}

\* bots_to_add = running_bot_names - active_trade_names
BotsToAdd(running_bot_names, active_trade_names) ==
    running_bot_names \ active_trade_names

\* mutant: load_trades returns what the file held, readable or not
load_active_trades_stale(state, file) == file

\* load_trades: the decoded list, or [] when the file does not exist or
\* cannot be decoded
load_active_trades(state, file) == IF state = "ok" THEN file ELSE <<>>

\* mutant: the client is not closed when run ends
CloseOnExitNever(n) == n

\* the finally clause of run: await self._hummingbot_manager.close_client()
CloseOnExit(n) == n + 1

\* mutant: save_trades writes nothing
save_trades_skipped(file, trades, save_ok) == file

\* what the file holds after save_trades(trades): the dump, or, when writing
\* fails, what it held (the exception is caught and printed)
save_trades(file, trades, save_ok) == IF save_ok THEN trades ELSE file

\* _synchronize_active_trades, and the "if not active_trades" of run.
\* save_ok: whether the write of save_trades succeeds.
\* all_bot_statuses_response: what get_all_bot_statuses returned;
\* order: the iteration order of the set bots_to_add.
SynchronizeSaving(all_bot_statuses_response, order, save_ok) ==
    LET all_bot_statuses_data == Get(all_bot_statuses_response, "data", EmptyMap)
        running_bot_names == DOMAIN all_bot_statuses_data
        loaded == load_active_trades(file_state, storage)
        bots_to_add == BotsToAdd(running_bot_names, NamesIn(loaded))
        added == [i \in 1..Len(order) |->
                    NewTrade(order[i], all_bot_statuses_data[order[i]])]
        trades == loaded \o added
    IN  /\ pc = "sync"
        /\ order \in Orders(bots_to_add)
        /\ storage' = save_trades(storage, trades, save_ok)
        /\ active_trades' = trades
        /\ bot_statuses_data' = all_bot_statuses_data
        /\ idx' = 1
        /\ trades_to_keep' = <<>>
        /\ sent' = <<>>
        /\ archive_calls' = <<>>
        /\ pass_log' = <<>>
        /\ readded' = readded \cup (bots_to_add \cap removed_ever)
        /\ pc' = IF trades = <<>> THEN "sleep" ELSE "process"
        /\ pass_times' = IF Len(pass_times) < MaxCycles
                         THEN Append(pass_times, now) ELSE pass_times
        /\ fetch_status' = Get(all_bot_statuses_response, "status", None)
        /\ file_state' = IF save_ok THEN "ok" ELSE file_state
        /\ UNCHANGED <<statuses, last_active, processed_logs, now, cycle, dispatched,
                       heartbeats, removed_ever, faults, initial_names, closed,
                       in_general, in_error, out_reason>>

\* mutant: a kept record goes to the front of the list
KeepTradeFirst(trades, trade) == <<trade>> \o trades

\* trades_to_keep.append(trade)
KeepTrade(trades, trade) == Append(trades, trade)

Synchronize(all_bot_statuses_response, order) ==
    SynchronizeSaving(all_bot_statuses_response, order, TRUE)

NotTrue(calls) == {i \in DOMAIN calls : calls[i].outcome # "true"}
Raising(calls) == {i \in DOMAIN calls : calls[i].outcome = "raise"}
OfType(calls, type) == SelectSeq(calls, LAMBDA c : c.message_type = type)

\* the identifiers of a list of trade_update calls
TradeIds(calls) ==
    [i \in DOMAIN calls |->
        calls[i].instance_name \o "-" \o calls[i].trading_pair \o "-"
            \o calls[i].trade_type \o "-" \o calls[i].amount \o "-"
            \o calls[i].price \o "-" \o calls[i].timestamp]

IsBeat(c) ==
    /\ c.message_type = "bot_status_update"
    /\ c.status = "running"
    /\ c.outcome # "raise"

\* the running status updates among calls that notify returned from
Beats(calls, current_time) ==
    [i \in DOMAIN SelectSeq(calls, IsBeat) |->
        [instance_name |-> SelectSeq(calls, IsBeat)[i].instance_name,
         at |-> current_time]]

\* one iteration of "for trade in active_trades" of _process_active_trades.
\* raise_at, fail_at: the notify call of the try block that raises, and the one
\* that returns False (0: none); err_out: the notify call of the except clause;
\* archive_ok: what stop_and_archive_bot does: "ok" (returns True, ...),
\* "fail" (returns False, ...) or "raise".
ProcessRecordSaving(raise_at, fail_at, err_out, archive_ok, save_ok) ==
    /\ pc = "process"
    /\ idx <= Len(active_trades)
    /\ idx' = idx + 1
    /\ \E trade \in {active_trades[idx]} :
         IF ~HasName(trade)
         THEN /\ raise_at = 0 /\ fail_at = 0 /\ err_out = "true" /\ archive_ok = "ok"
              /\ save_ok
              /\ UNCHANGED <<storage, pc, trades_to_keep, last_active,
                             processed_logs, sent, archive_calls, pass_log,
                             dispatched, heartbeats, faults, closed>>
         ELSE \E r \in {ProcessTrade(trade, bot_statuses_data, processed_logs,
                                     last_active, storage, now, raise_at, fail_at,
                                     err_out, archive_ok)} :
              \* each input names something that happened
              /\ raise_at # 0 => r.raised
              /\ fail_at # 0 =>
                    \E i \in DOMAIN r.calls :
                        r.calls[i].outcome = "false" /\ r.calls[i].message_type # "error"
              /\ err_out # "true" => r.raised
              /\ archive_ok # "ok" => r.archives # <<>>
              /\ ~save_ok => r.storage # storage
              /\ faults + Cardinality(NotTrue(r.calls)) <= MaxFaults
              /\ faults' = faults + Cardinality(NotTrue(r.calls))
              /\ processed_logs' = r.processed_logs
              /\ last_active' = r.last_active
              /\ storage' = save_trades(storage, r.storage, save_ok)
              /\ trades_to_keep' =
                    IF r.keep THEN KeepTrade(trades_to_keep, trade) ELSE trades_to_keep
              /\ sent' = sent \o r.calls
              /\ archive_calls' = archive_calls \o r.archives
              /\ pass_log' = Append(pass_log,
                    [instance_name |-> NameOf(trade), raised |-> r.raised,
                     keep |-> r.keep])
              /\ dispatched' = dispatched \o TradeIds(OfType(r.calls, "trade_update"))
              /\ heartbeats' = heartbeats \o Beats(r.calls, now)
              /\ pc' = IF r.escaped THEN "exited" ELSE pc
              /\ closed' = IF r.escaped THEN CloseOnExit(closed) ELSE closed
    /\ UNCHANGED <<statuses, active_trades, bot_statuses_data, now, cycle,
                   removed_ever, readded, initial_names, pass_times, fetch_status,
                   file_state, in_general,
                   in_error, out_reason>>

ProcessRecord(raise_at, fail_at, err_out, archive_ok) ==
    ProcessRecordSaving(raise_at, fail_at, err_out, archive_ok, TRUE)

\* the end of _process_active_trades: save_trades(trades_to_keep)
FinishProcessSaving(save_ok) ==
    /\ pc = "process"
    /\ idx > Len(active_trades)
    /\ storage' = save_trades(storage, trades_to_keep, save_ok)
    /\ removed_ever' = removed_ever \cup
          ({archive_calls[i].instance_name : i \in DOMAIN archive_calls}
             \ NamesIn(trades_to_keep))
    /\ file_state' = IF save_ok THEN "ok" ELSE file_state
    /\ pc' = "sleep"
    /\ UNCHANGED <<statuses, active_trades, bot_statuses_data, idx, trades_to_keep,
                   last_active, processed_logs, now, cycle, sent, archive_calls,
                   pass_log, dispatched, heartbeats, readded, faults, initial_names,
                   pass_times, fetch_status, closed, in_general, in_error, out_reason>>

FinishProcess == FinishProcessSaving(TRUE)

\* asyncio.sleep(check_interval_seconds): the clock has advanced by seconds
\* when the next pass starts
Sleep(seconds) ==
    /\ pc = "sleep"
    /\ cycle < MaxCycles
    /\ now' = now + seconds
    /\ cycle' = cycle + 1
    /\ pc' = "sync"
    /\ UNCHANGED <<statuses, storage, active_trades, bot_statuses_data, idx,
                   trades_to_keep, last_active, processed_logs, sent, archive_calls,
                   pass_log, dispatched, heartbeats, removed_ever, readded, faults,
                   initial_names, pass_times, fetch_status, file_state, closed, in_general, in_error, out_reason>>

\* the classifier called on its own
Classify ==
    /\ pc = "classify"
    /\ out_reason' = determine_stop_reason(in_general, in_error)
    /\ pc' = "classified"
    /\ UNCHANGED <<statuses, storage, active_trades, bot_statuses_data, idx,
                   trades_to_keep, last_active, processed_logs, now, cycle, sent,
                   archive_calls, pass_log, dispatched, heartbeats, removed_ever,
                   readded, faults, initial_names, pass_times, fetch_status, file_state, closed, in_general, in_error>>

----------------------------------------------------------------------------
(* Inputs: what the control plane reports and what the registry file holds *)
(* when the monitor starts                                                 *)

BotA == "bot_a"
BotB == "bot_b"

Snapshot(status, general_logs, error_logs) ==
    [status |-> status, general_logs |-> general_logs, error_logs |-> error_logs]

\* the status maps that report BotA as one of snaps_a or not at all, and BotB
\* as one of snaps_b or not at all
StatusMaps(snaps_a, snaps_b) ==
    {[n \in {BotA} |-> a] : a \in snaps_a} \cup
    {[n \in {BotB} |-> b] : b \in snaps_b} \cup
    {[n \in {BotA, BotB} |-> IF n = BotA THEN a ELSE b] : a \in snaps_a, b \in snaps_b}
    \cup {EmptyMap}

Stored(instance_name, chat_id, trading_pair) ==
    [instance_name |-> instance_name, chat_id |-> chat_id, trading_pair |-> trading_pair]
\* a stored record without instance_name
Nameless == [chat_id |-> TELEGRAM_CHAT_ID, trading_pair |-> "DOGE-USDT"]

Registries ==
    { <<>>,
      <<Stored(BotA, "777", "ETH-USDC")>>,
      <<Stored(BotB, TELEGRAM_CHAT_ID, "SOL-USDC"), Stored(BotA, "777", "ETH-USDC")>>,
      <<Nameless, Stored(BotA, TELEGRAM_CHAT_ID, "ETH-USDC")>> }

Phases == {"running", "stopped", "success", "not_found", "paused"}

LifecycleGeneral ==
    { <<>>,
      <<Line(MsgStarting, "t1"), Line(MsgClosed, "t2")>>,
      <<Line(MsgStopping, "t1")>> }
LifecycleErrors == { <<>>, <<Line(MsgException, "t1")>> }

LifecycleSnapsA ==
    {Snapshot(s, g, e) : s \in Phases, g \in LifecycleGeneral, e \in LifecycleErrors}
\* a status map entry that also carries the configuration of the bot
Detailed ==
    [status |-> "running", general_logs |-> <<>>, error_logs |-> <<>>,
     trading_pair |-> "SOL-USDC", order_amount_usd |-> 25]

LifecycleSnapsB ==
    {Snapshot("running", <<>>, <<>>), Snapshot("not_found", <<>>, <<>>), Detailed}

InitFile(maps, registries, file_states) ==
    /\ statuses \in maps
    /\ storage \in registries
    /\ pc = "sync"
    /\ active_trades = <<>>
    /\ bot_statuses_data = EmptyMap
    /\ idx = 1
    /\ trades_to_keep = <<>>
    /\ last_active = EmptyMap
    /\ processed_logs = EmptyMap
    /\ now = 0
    /\ cycle = 1
    /\ sent = <<>>
    /\ archive_calls = <<>>
    /\ pass_log = <<>>
    /\ dispatched = <<>>
    /\ heartbeats = <<>>
    /\ removed_ever = {}
    /\ readded = {}
    /\ faults = 0
    /\ initial_names = NamesIn(storage)
    /\ pass_times = <<>>
    /\ fetch_status = None
    /\ file_state \in file_states
    /\ closed = 0
    /\ in_general = <<>>
    /\ in_error = <<>>
    /\ out_reason = None

InitWith(maps, registries) == InitFile(maps, registries, {"ok"})

MaxCalls == 4   \* notify calls of one try block: the fills of the longest log and one status

Fetched == [status |-> "success", data |-> statuses]

SynchronizeStep ==
    \E order \in Orders(BotsToAdd(DOMAIN Fetched.data, NamesIn(storage))) :
        Synchronize(Fetched, order)

\* the except clause is reached only after a raise, and no more gateway
\* faults are drawn than the budget leaves
ProcessStep ==
    \E raise_at, fail_at \in 0..MaxCalls, err_out \in {"true", "false", "raise"},
       archive_ok \in {"ok", "fail", "raise"} :
        /\ err_out # "true" => (raise_at # 0 \/ archive_ok = "raise")
        /\ archive_ok = "raise" => raise_at = 0
        /\ (raise_at # 0 \/ fail_at # 0) => faults < MaxFaults
        /\ (raise_at # 0 /\ fail_at # 0) => (faults + 1 < MaxFaults /\ fail_at < raise_at)
        /\ ProcessRecord(raise_at, fail_at, err_out, archive_ok)

SleepStep == Sleep(CheckInterval)

Init == InitWith(StatusMaps(LifecycleSnapsA, LifecycleSnapsB), Registries)

Next == SynchronizeStep \/ ProcessStep \/ FinishProcess \/ SleepStep

Spec == Init /\ [][Next]_vars

----------------------------------------------------------------------------
(* The classifier on its own: every general log list of at most MaxLogLen  *)
(* lines and every error log list of at most MaxErrLen lines               *)

SeqsUpTo(S, n) == UNION {[1..k -> S] : k \in 0..n}

ClassifierLines == {Line(m, "t1") : m \in ClassifierMsgs}
ErrorLines == {Line(m, "t1") : m \in ErrorMsgs}

InitClassifier ==
    /\ statuses = EmptyMap
    /\ storage = <<>>
    /\ pc = "classify"
    /\ active_trades = <<>>
    /\ bot_statuses_data = EmptyMap
    /\ idx = 1
    /\ trades_to_keep = <<>>
    /\ last_active = EmptyMap
    /\ processed_logs = EmptyMap
    /\ now = 0
    /\ cycle = 1
    /\ sent = <<>>
    /\ archive_calls = <<>>
    /\ pass_log = <<>>
    /\ dispatched = <<>>
    /\ heartbeats = <<>>
    /\ removed_ever = {}
    /\ readded = {}
    /\ faults = 0
    /\ initial_names = {}
    /\ pass_times = <<>>
    /\ fetch_status = None
    /\ file_state = "ok"
    /\ closed = 0
    /\ in_general \in SeqsUpTo(ClassifierLines, MaxLogLen)
    /\ in_error \in SeqsUpTo(ErrorLines, MaxErrLen)
    /\ out_reason = None

NextClassifier == Classify

SpecClassifier == InitClassifier /\ [][NextClassifier]_vars

HasCompletion(log_entry) == IsCompletionMsg(Lower(MsgOf(log_entry)))
HasStop(log_entry) == IsStopMsg(Lower(MsgOf(log_entry)))

\* C6: whenever the general logs hold a completion phrase on a line later than
\* a line holding "stopping the strategy", the classifier returns Trade
\* Completed.
C6_CompletionAfterStop ==
    (/\ pc = "classified"
     /\ \E i, j \in DOMAIN in_general :
           i < j /\ HasStop(in_general[i]) /\ HasCompletion(in_general[j]))
    => out_reason = TradeCompleted

\* The part of C6 the code does satisfy: when no line after the most recent
\* completion line holds the stop phrase, the classifier returns Trade Completed.
C6_LastMatchCompletion ==
    (/\ pc = "classified"
     /\ \E j \in DOMAIN in_general :
           /\ HasCompletion(in_general[j])
           /\ \A k \in DOMAIN in_general : k > j => ~HasStop(in_general[k]))
    => out_reason = TradeCompleted

\* C7: whenever a completion line is followed by a separate, later line holding
\* "stopping the strategy", the classifier returns Trade Completed.
C7_CompletionWinsOverLaterStop ==
    (/\ pc = "classified"
     /\ \E i, j \in DOMAIN in_general :
           i < j /\ HasCompletion(in_general[i]) /\ HasStop(in_general[j]))
    => out_reason = TradeCompleted

----------------------------------------------------------------------------
(* What a finished pass did, read from the state after save_trades *)

PassDone == pc = "sleep"

\* the records of the pass that have a name
Tracked == {i \in DOMAIN active_trades : HasName(active_trades[i])}

PhaseOf(instance_name) == StatusResponse(bot_statuses_data, instance_name).status

\* what the Log Classifier returns on the logs reported for the instance
ReasonOf(instance_name) ==
    determine_stop_reason(StatusResponse(bot_statuses_data, instance_name).general_logs,
                          StatusResponse(bot_statuses_data, instance_name).error_logs)

\* an exception was caught while the record of that name was processed
RaisedFor(instance_name) ==
    \E k \in DOMAIN pass_log :
        pass_log[k].instance_name = instance_name /\ pass_log[k].raised

ArchiveCallsFor(instance_name) ==
    {k \in DOMAIN archive_calls : archive_calls[k].instance_name = instance_name}

SentFor(instance_name, type) ==
    {k \in DOMAIN sent :
        sent[k].message_type = type /\ sent[k].instance_name = instance_name}

InRegistry(trade) == \E k \in DOMAIN storage : storage[k] = trade

\* C8: after a pass, a record reported stopped or success whose logs do not
\* classify as Trade Completed has had no archive call and is still in the
\* registry; one whose logs classify as Trade Completed (and whose processing
\* raised nothing) has been archived and is no longer in the registry.
C8_ArchiveIffTradeCompleted ==
    PassDone =>
        \A i \in Tracked :
            LET trade == active_trades[i]
                name == NameOf(trade)
            IN  PhaseOf(name) \in {"stopped", "success"} =>
                  /\ ReasonOf(name) # TradeCompleted =>
                        ArchiveCallsFor(name) = {} /\ InRegistry(trade)
                  /\ (ReasonOf(name) = TradeCompleted /\ ~RaisedFor(name)) =>
                        ArchiveCallsFor(name) # {} /\ name \notin NamesIn(storage)
                  /\ ~RaisedFor(name) =>
                        ((ArchiveCallsFor(name) # {} /\ name \notin NamesIn(storage))
                            <=> ReasonOf(name) = TradeCompleted)

C8_Witness ==
    /\ PassDone
    /\ \E i \in Tracked :
          /\ NameOf(active_trades[i]) = BotA
          /\ PhaseOf(BotA) = "success"
          /\ ReasonOf(BotA) = TradeCompleted
          /\ ArchiveCallsFor(BotA) # {}
          /\ BotA \notin NamesIn(storage)
    /\ cycle = 1

\* C9: after a pass, for a record reported stopped whose logs classify as
\* Trade Completed (processed without an exception): exactly one archive call
\* was made for it, it is not in the registry, and exactly one status update
\* was sent for it, to its recipient, with status stopped and reason Trade
\* Completed.
C9_StoppedCompletedArchived ==
    PassDone =>
        \A i \in Tracked :
            LET trade == active_trades[i]
                name == NameOf(trade)
            IN  (/\ PhaseOf(name) = "stopped"
                 /\ ReasonOf(name) = TradeCompleted
                 /\ ~RaisedFor(name)) =>
                  /\ Cardinality(ArchiveCallsFor(name)) = 1
                  /\ name \notin NamesIn(storage)
                  /\ Cardinality(SentFor(name, "bot_status_update")) = 1
                  /\ \A k \in SentFor(name, "bot_status_update") :
                        /\ sent[k].status = "stopped"
                        /\ sent[k].stop_reason = TradeCompleted
                        /\ sent[k].chat_id = Get(trade, "chat_id", None)

C9_Witness ==
    /\ PassDone
    /\ \E i \in Tracked :
          /\ NameOf(active_trades[i]) = BotA
          /\ PhaseOf(BotA) = "stopped"
          /\ ReasonOf(BotA) = TradeCompleted
          /\ Cardinality(ArchiveCallsFor(BotA)) = 1
          /\ Cardinality(SentFor(BotA, "bot_status_update")) = 1
          /\ BotA \in initial_names
          /\ BotA \notin NamesIn(storage)

\* C10: after a pass, for a record reported not_found (processed without an
\* exception), whatever its logs: an archive call was made for it, it is not in
\* the registry, and exactly one not-found alert was sent for it, to the
\* record's recipient.
C10_NotFoundArchived ==
    PassDone =>
        \A i \in Tracked :
            LET trade == active_trades[i]
                name == NameOf(trade)
            IN  (PhaseOf(name) = "not_found" /\ ~RaisedFor(name)) =>
                  /\ Cardinality(ArchiveCallsFor(name)) = 1
                  /\ name \notin NamesIn(storage)
                  /\ Cardinality(SentFor(name, "bot_not_found_alert")) = 1
                  /\ \A k \in SentFor(name, "bot_not_found_alert") :
                        sent[k].chat_id = Get(trade, "chat_id", None)
                  /\ SentFor(name, "bot_status_update") = {}

C10_Witness ==
    /\ PassDone
    /\ \E i \in Tracked :
          /\ NameOf(active_trades[i]) = BotA
          /\ Get(active_trades[i], "chat_id", None) = "777"
          /\ PhaseOf(BotA) = "not_found"
          /\ ReasonOf(BotA) = TradeCompleted
          /\ Cardinality(ArchiveCallsFor(BotA)) = 1
          /\ Cardinality(SentFor(BotA, "bot_not_found_alert")) = 1
          /\ BotA \notin NamesIn(storage)

\* the instances a pass archives and removes: reported not_found, or reported
\* stopped or success with logs that classify as Trade Completed
Terminal(instance_name) ==
    \/ PhaseOf(instance_name) = "not_found"
    \/ /\ PhaseOf(instance_name) \in {"stopped", "success"}
       /\ ReasonOf(instance_name) = TradeCompleted

C4_NeverReadmitted ==
    [][\A n \in removed_ever :
          n \notin NamesIn(storage) => n \notin NamesIn(storage')]_vars

----------------------------------------------------------------------------
(* The trade extractor over replayed logs: one instance whose general log  *)
(* is the same list of lines in every cycle                                *)

MaxTradeLogLen == 3    \* longest general log list replayed to the extractor

\* fill lines with and without a timestamp, and a line that is no fill
TradeLines ==
    { [msg |-> MsgBuyX], [msg |-> MsgBuyY], Line(MsgSell, "t2"),
      Line(MsgStarting, "t1") }

TradeSnaps ==
    {Snapshot(s, g, <<>>) : s \in {"running", "not_found"},
                            g \in SeqsUpTo(TradeLines, MaxTradeLogLen)}

InitTrades ==
    InitWith({[n \in {BotA} |-> a] : a \in TradeSnaps},
             {<<>>, <<Stored(BotA, "777", "ETH-USDC")>>})

SpecTrades == InitTrades /\ [][Next]_vars

\* the entries of a log list that the fill pattern matches
FillLines(general_logs) ==
    {general_logs[i] : i \in {j \in DOMAIN general_logs :
                                 TradeMatch(MsgOf(general_logs[j])).matched}}

\* the identity keys of the fills of a log list
FillKeys(instance_name, general_logs) ==
    {TradeIdentifier(instance_name, TradeMatch(MsgOf(l)), TimestampOf(l)) :
        l \in FillLines(general_logs)}

\* C1: whatever the gateway does, no identity key is handed to the gateway
\* twice.
C1_AtMostOncePerKey ==
    \A i, j \in DOMAIN dispatched : dispatched[i] = dispatched[j] => i = j

\* C2 as stated: with every gateway call succeeding, after each pass the
\* trade updates handed over so far are as many as the distinct fill lines of
\* the replayed log.
C2_OncePerFillLine ==
    (PassDone /\ faults = 0) =>
        Len(dispatched) = Cardinality(FillLines(statuses[BotA].general_logs))

\* C2, as the code has it: with every gateway call succeeding, the first pass
\* hands over exactly one trade update per distinct identity key of the
\* replayed log, and every later pass hands over none.
C2_OncePerKeyFirstCycle ==
    (PassDone /\ faults = 0) =>
        LET keys == FillKeys(BotA, statuses[BotA].general_logs)
            updates == OfType(sent, "trade_update")
        IN  /\ Len(dispatched) = Cardinality(keys)
            /\ {dispatched[i] : i \in DOMAIN dispatched} = keys
            /\ cycle = 1 => TradeIds(updates) = dispatched
            /\ cycle > 1 => updates = <<>>

\* last pass done: three distinct fill lines, two of them with the same key,
\* gave two trade updates, both in the first pass
C2_Witness ==
    /\ PassDone
    /\ faults = 0
    /\ cycle = MaxCycles
    /\ statuses[BotA].general_logs =
          <<[msg |-> MsgBuyX], [msg |-> MsgBuyY], Line(MsgSell, "t2")>>
    /\ Len(dispatched) = 2
    /\ OfType(sent, "trade_update") = <<>>

----------------------------------------------------------------------------
(* The heartbeat throttle under a clock that advances by chosen steps      *)

ClockSteps == {100, 200, 201}

HeartbeatSnaps ==
    {Snapshot("running", g, <<>>) : g \in {<<>>, <<Line(MsgSell, "t1")>>}}

InitHeartbeat ==
    InitWith(StatusMaps(HeartbeatSnaps, HeartbeatSnaps) \ {EmptyMap},
             {<<>>, <<Stored(BotA, "777", "ETH-USDC")>>})

ClockStep == \E seconds \in ClockSteps : Sleep(seconds)

NextHeartbeat == SynchronizeStep \/ ProcessStep \/ FinishProcess \/ ClockStep

SpecHeartbeat == InitHeartbeat /\ [][NextHeartbeat]_vars

BeatsOf(instance_name) ==
    {k \in DOMAIN heartbeats : heartbeats[k].instance_name = instance_name}

\* C5: for an instance reported running in every cycle, two running-status
\* notifications that notify returned from are at least 300 seconds apart,
\* and a pass that raised nothing for the instance sends one exactly when none
\* was sent less than 300 seconds before it.
C5_HeartbeatCooldown ==
    /\ \A i, j \in DOMAIN heartbeats :
          (i < j /\ heartbeats[i].instance_name = heartbeats[j].instance_name) =>
              heartbeats[j].at - heartbeats[i].at >= HeartbeatSeconds
    /\ PassDone =>
          \A n \in DOMAIN statuses :
              ~RaisedFor(n) =>
                  ((\E k \in BeatsOf(n) : heartbeats[k].at = now)
                     <=> ~\E k \in BeatsOf(n) :
                            /\ heartbeats[k].at < now
                            /\ now - heartbeats[k].at < HeartbeatSeconds)

\* passes at T = 0, T + 100 and T + 301: notifications at 0 and at 301 only
C5_Witness ==
    /\ PassDone
    /\ pass_times = <<0, 100, 301>>
    /\ BotA \in DOMAIN statuses
    /\ {heartbeats[k].at : k \in BeatsOf(BotA)} = {0, 301}
    /\ Cardinality(BeatsOf(BotA)) = 2

----------------------------------------------------------------------------
(* The record the pass is about to process *)

AtRecord == pc = "process" /\ idx <= Len(active_trades)

\* the status map with the phase reported for one instance replaced
WithPhase(statuses_data, instance_name, phase) ==
    [n \in DOMAIN statuses_data |->
        IF n = instance_name
        THEN [statuses_data[n] EXCEPT !.status = phase]
        ELSE statuses_data[n]]

\* what processing the current record does when no gateway call fails, under
\* the status map given
Processed(statuses_data) ==
    ProcessTrade(active_trades[idx], statuses_data, processed_logs, last_active,
                 storage, now, 0, 0, "true", "ok")

\* C11: a record reported success is processed as the same record reported
\* stopped would be: the same archive calls, the same decision to keep or
\* remove, and the same notifications.
C11_SuccessSameAsStopped ==
    (/\ AtRecord
     /\ HasName(active_trades[idx])
     /\ PhaseOf(NameOf(active_trades[idx])) = "success") =>
        LET name == NameOf(active_trades[idx])
            as_success == Processed(bot_statuses_data)
            as_stopped == Processed(WithPhase(bot_statuses_data, name, "stopped"))
        IN  /\ as_success.archives = as_stopped.archives
            /\ as_success.keep = as_stopped.keep
            /\ as_success.calls = as_stopped.calls

\* the entries of the pass log about one instance
LoggedFor(instance_name) ==
    {k \in DOMAIN pass_log : pass_log[k].instance_name = instance_name}

\* C12: after a pass, every named record has been processed once; a record
\* whose processing raised is still in the registry and exactly one error
\* notification went to its recipient; every other record got no error
\* notification and is in the registry exactly when its phase is not terminal.
C12_FailOpen ==
    PassDone =>
        \A i \in Tracked :
            LET trade == active_trades[i]
                name == NameOf(trade)
            IN  /\ Cardinality(LoggedFor(name)) = 1
                /\ RaisedFor(name) =>
                      /\ InRegistry(trade)
                      /\ Cardinality(SentFor(name, "error")) = 1
                      /\ \A k \in SentFor(name, "error") :
                            sent[k].chat_id = Get(trade, "chat_id", None)
                /\ ~RaisedFor(name) =>
                      /\ SentFor(name, "error") = {}
                      /\ InRegistry(trade) <=> ~Terminal(name)

\* the first record raised and was kept, the record after it was processed
\* and, being not_found, archived and removed
C12_Witness ==
    /\ PassDone
    /\ Len(active_trades) = 2
    /\ NameOf(active_trades[1]) = BotB
    /\ NameOf(active_trades[2]) = BotA
    /\ RaisedFor(BotB)
    /\ BotB \in NamesIn(storage)
    /\ Cardinality(SentFor(BotB, "error")) = 1
    /\ PhaseOf(BotA) = "not_found"
    /\ ~RaisedFor(BotA)
    /\ SentFor(BotA, "bot_not_found_alert") # {}
    /\ BotA \notin NamesIn(storage)

\* C13: whatever a gateway raises while a record is processed, run() does
\* not leave its while loop.
C13_LoopNeverExits == pc # "exited"

\* no two records of a list carry the same instance_name
UniqueNames(trades) ==
    \A i, j \in DOMAIN trades :
        (/\ "instance_name" \in DOMAIN trades[i]
         /\ "instance_name" \in DOMAIN trades[j]
         /\ trades[i].instance_name = trades[j].instance_name) => i = j

\* C14: starting from a registry without duplicate names, the persisted
\* registry never holds two records with the same instance_name.
C14_UniqueInstanceNames == UniqueNames(storage)

\* last cycle, right after synchronization: two records, one of them admitted
\* again after having been archived
C14_Witness ==
    /\ pc = "process"
    /\ idx = 1
    /\ cycle = MaxCycles
    /\ NamesIn(storage) = {BotA, BotB}
    /\ Len(storage) = 2
    /\ BotA \in readded

\* the positions of a list that hold a record of the given name
Holding(trades, instance_name) ==
    {k \in DOMAIN trades :
        "instance_name" \in DOMAIN trades[k] /\ trades[k].instance_name = instance_name}

\* C15: a synchronization leaves every stored record where and as it was and
\* appends, for every name of the fetched map that was not in the loaded
\* registry, exactly one record: addressed to the configured chat, carrying
\* the detail the map gives and "UNKNOWN" or 0 where it gives none.
C15_SynchronizeFrame ==
    [][pc = "sync" =>
         LET map == bot_statuses_data'
             new == DOMAIN map \ NamesIn(storage)
         IN  /\ Len(storage') = Len(storage) + Cardinality(new)
             /\ \A i \in DOMAIN storage : storage'[i] = storage[i]
             /\ \A n \in new :
                   /\ Cardinality(Holding(storage', n)) = 1
                   /\ \A k \in Holding(storage', n) :
                         /\ k > Len(storage)
                         /\ storage'[k].chat_id = TELEGRAM_CHAT_ID
                         /\ storage'[k].trading_pair =
                               (IF "trading_pair" \in DOMAIN map[n]
                                THEN map[n].trading_pair ELSE "UNKNOWN")
                         /\ storage'[k].order_amount_usd =
                               (IF "order_amount_usd" \in DOMAIN map[n]
                                THEN map[n].order_amount_usd ELSE 0)
                         /\ storage'[k].trailing_stop_loss_delta = 0
                         /\ storage'[k].take_profit_delta = 0
                         /\ storage'[k].fixed_stop_loss_delta = 0
    ]_vars

\* first synchronization done: the stored record is untouched, one record
\* with placeholders and one with the reported detail were appended
C15_Witness ==
    /\ pc = "process"
    /\ idx = 1
    /\ cycle = 1
    /\ Len(storage) = 2
    /\ storage[1] = Stored(BotA, "777", "ETH-USDC")
    /\ storage[2].instance_name = BotB
    /\ storage[2].trading_pair = "UNKNOWN"
    /\ storage[2].order_amount_usd = 0

\* the notify calls of the pass about one instance, of any type
AllSentFor(instance_name) ==
    {k \in DOMAIN sent : sent[k].instance_name = instance_name}

----------------------------------------------------------------------------
(* The loop running on without end: past MaxCycles the cycle counter and   *)
(* the clock stay where they are and the passes go on.  Every notify call  *)
(* returns True here, so the loop is never left.                           *)

SleepOn ==
    /\ pc = "sleep"
    /\ cycle = MaxCycles
    /\ pc' = "sync"
    /\ UNCHANGED <<statuses, storage, active_trades, bot_statuses_data, idx,
                   trades_to_keep, last_active, processed_logs, now, cycle, sent,
                   archive_calls, pass_log, dispatched, heartbeats, removed_ever,
                   readded, faults, initial_names, pass_times, fetch_status, file_state, closed, in_general, in_error,
                   out_reason>>

ProcessCleanStep ==
    \E archive_ok \in {"ok", "fail"} : ProcessRecord(0, 0, "true", archive_ok)

NextLive ==
    SynchronizeStep \/ ProcessCleanStep \/ FinishProcess \/ SleepStep \/ SleepOn

SpecLive == Init /\ [][NextLive]_vars /\ WF_vars(NextLive)

\* C17: a record whose instance the remote map never lists is eventually no
\* longer in the persisted registry.
C17_AbsentEventuallyRemoved ==
    (BotB \in NamesIn(storage) /\ BotB \notin DOMAIN statuses)
        ~> (BotB \notin NamesIn(storage))

----------------------------------------------------------------------------
(* The loop when get_all_bot_statuses may fail: any pass may get the error  *)
(* response instead of the map                                              *)

\* mutant: the error response still carries the remote map
FetchErrorStale == [status |-> "error", data |-> statuses]

\* what the except clauses of get_all_bot_statuses return
FetchError == [status |-> "error", data |-> EmptyMap]

SynchronizeFailStep ==
    \E order \in Orders(BotsToAdd(DOMAIN FetchError.data, NamesIn(storage))) :
        Synchronize(FetchError, order)

NextFetch ==
    SynchronizeStep \/ SynchronizeFailStep \/ ProcessStep \/ FinishProcess \/ SleepStep

SpecFetch == Init /\ [][NextFetch]_vars

\* the records of a list that the for loop does not skip
Named(trades) == SelectSeq(trades, HasName)

\* the steps of a pass whose fetch failed: the synchronize step adds nothing
\* and hands on an empty map, the pass sends and archives nothing and ends
\* with the given list persisted, and the loop goes to the next pass
FetchFailureFrame(persisted) ==
    /\ (pc = "sync" /\ fetch_status' = "error") =>
          /\ storage' = storage
          /\ active_trades' = storage
          /\ bot_statuses_data' = EmptyMap
          /\ pc' \in {"process", "sleep"}
    /\ (pc = "process" /\ fetch_status = "error") =>
          /\ sent' = <<>>
          /\ archive_calls' = <<>>
          /\ pc' \in {"process", "sleep"}
          /\ storage' = IF pc' = "sleep" THEN persisted ELSE storage
    /\ (pc = "sleep" /\ fetch_status = "error") =>
          /\ pc' = "sync"
          /\ storage' = storage

----------------------------------------------------------------------------
(* Archive calls that report failure *)

\* the notify calls that tell the recipient the instance is finished: the
\* stopped status update of the stopped and success branches, the alert of
\* the not_found branch
TerminalNoticesFor(instance_name) ==
    IF PhaseOf(instance_name) = "not_found"
    THEN SentFor(instance_name, "bot_not_found_alert")
    ELSE {k \in SentFor(instance_name, "bot_status_update") :
            sent[k].status = "stopped" /\ sent[k].stop_reason = TradeCompleted}

\* C19: after a pass, every instance an archive call was made for, whether
\* the call reported success or failure, and whose processing raised nothing,
\* is reported not_found or Trade Completed, is no longer in the registry, and
\* had its terminal notification handed to notify once in that pass.
C19_ArchiveFailureDoesNotBlock ==
    PassDone =>
        \A k \in DOMAIN archive_calls :
            (/\ archive_calls[k].ok \in {"ok", "fail"}
             /\ ~RaisedFor(archive_calls[k].instance_name)) =>
                /\ Terminal(archive_calls[k].instance_name)
                /\ archive_calls[k].instance_name \notin NamesIn(storage)
                /\ archive_calls[k].instance_name \notin NamesIn(trades_to_keep)
                /\ Cardinality(TerminalNoticesFor(archive_calls[k].instance_name)) = 1

\* the archive call for a stopped instance reported failure, and another one
\* for a not_found instance did in the same pass
C19_Witness ==
    /\ PassDone
    /\ \E k, m \in DOMAIN archive_calls :
          /\ archive_calls[k].ok = "fail"
          /\ archive_calls[m].ok = "fail"
          /\ PhaseOf(archive_calls[k].instance_name) = "stopped"
          /\ PhaseOf(archive_calls[m].instance_name) = "not_found"
          /\ ~RaisedFor(archive_calls[k].instance_name)
          /\ ~RaisedFor(archive_calls[m].instance_name)
          /\ archive_calls[k].instance_name \in initial_names
          /\ archive_calls[k].instance_name \notin NamesIn(storage)
          /\ archive_calls[m].instance_name \notin NamesIn(storage)

----------------------------------------------------------------------------
(* Stored records without an instance name *)

\* the positions of a list whose record has no instance_name key
Unnamed(trades) == {i \in DOMAIN trades : "instance_name" \notin DOMAIN trades[i]}

\* C20: after a pass over a list that held a record without an instance name,
\* no record of the persisted registry lacks the name, the pass has handled
\* exactly the other records, and every notify call and archive call of the
\* pass names one of those.
C20_NamelessDropped ==
    (PassDone /\ Unnamed(active_trades) # {}) =>
        /\ Unnamed(storage) = {}
        /\ Len(storage) <= Len(active_trades) - Cardinality(Unnamed(active_trades))
        /\ Len(pass_log) = Len(active_trades) - Cardinality(Unnamed(active_trades))
        /\ \A k \in DOMAIN pass_log :
              \E i \in DOMAIN active_trades \ Unnamed(active_trades) :
                  pass_log[k].instance_name = active_trades[i].instance_name
        /\ \A k \in DOMAIN sent :
              \E i \in DOMAIN active_trades \ Unnamed(active_trades) :
                  sent[k].instance_name = active_trades[i].instance_name
        /\ \A k \in DOMAIN archive_calls :
              \E i \in DOMAIN active_trades \ Unnamed(active_trades) :
                  archive_calls[k].instance_name = active_trades[i].instance_name

\* a pass over a nameless record and a tracked one has ended; the tracked one
\* was notified about and the nameless one is gone
C20_Witness ==
    /\ PassDone
    /\ cycle = 1
    /\ Unnamed(active_trades) = {1}
    /\ Len(active_trades) >= 2
    /\ sent # <<>>
    /\ storage # <<>>
    /\ Unnamed(storage) = {}

----------------------------------------------------------------------------
(* Records with a status outside the four the chain names *)

KnownPhases == {"running", "stopped", "success", "not_found"}

\* C21: after a pass, a record whose reported status is none of running,
\* stopped, success and not_found (a status the map reports, or none because
\* the map does not list the instance) is in the registry unchanged, and the
\* pass made no archive call, no status update and no not-found alert for it.
C21_OtherPhaseKept ==
    PassDone =>
        \A i \in Tracked :
            PhaseOf(NameOf(active_trades[i])) \notin KnownPhases =>
                /\ InRegistry(active_trades[i])
                /\ ArchiveCallsFor(NameOf(active_trades[i])) = {}
                /\ SentFor(NameOf(active_trades[i]), "bot_status_update") = {}
                /\ SentFor(NameOf(active_trades[i]), "bot_not_found_alert") = {}

\* a pass has ended over a record reported paused, with logs that classify as
\* Trade Completed, while the other record of the pass was archived
C21_Witness ==
    /\ PassDone
    /\ \E i \in Tracked :
          /\ NameOf(active_trades[i]) = BotA
          /\ PhaseOf(BotA) = "paused"
          /\ ReasonOf(BotA) = TradeCompleted
          /\ InRegistry(active_trades[i])
    /\ archive_calls # <<>>

----------------------------------------------------------------------------
(* The registry a pass persists *)

\* the records of the pass for which an archive branch ran to its end
Removed(trade) == Terminal(NameOf(trade)) /\ ~RaisedFor(NameOf(trade))

\* C22 (as stated): after a pass the persisted registry is the list of the
\* input records that have a name and that no archive call was made for,
\* unmodified and in input order.
C22_RegistryIsUnarchivedInput ==
    (PassDone /\ active_trades # <<>>) =>
        storage = SelectSeq(active_trades,
                            LAMBDA t : HasName(t) /\ ArchiveCallsFor(NameOf(t)) = {})

\* C22 (amended): after a pass the persisted registry is the working set
\* trades_to_keep, and that is the list of the input records that have a name
\* and that no archive branch ran to its end for, unmodified and in input
\* order; a record whose processing raised is in it even when its archive call
\* and remove_trade_entry had been made before the exception.
C22_RegistryIsWorkingSet ==
    (PassDone /\ active_trades # <<>>) =>
        /\ storage = trades_to_keep
        /\ storage = SelectSeq(active_trades, LAMBDA t : HasName(t) /\ ~Removed(t))

\* a pass over two records has ended with both kept, the first of them after
\* its archive call was made and the notification after it raised
C22_Witness ==
    /\ PassDone
    /\ Len(active_trades) = 2
    /\ storage = active_trades
    /\ ArchiveCallsFor(NameOf(active_trades[1])) # {}
    /\ \E k \in ArchiveCallsFor(NameOf(active_trades[1])) : archive_calls[k].ok = "ok"
    /\ RaisedFor(NameOf(active_trades[1]))

----------------------------------------------------------------------------
(* The loop when writing the registry file may fail: every save_trades of   *)
(* a pass (in synchronize, in remove_trade_entry, at the end of the pass)   *)
(* either writes the file or leaves it as it was                            *)

SaveSnaps == {Snapshot("running", <<>>, <<>>), Snapshot("not_found", <<>>, <<>>)}

InitSave == InitWith(StatusMaps(SaveSnaps, SaveSnaps), Registries)

SynchronizeSaveStep ==
    \E order \in Orders(BotsToAdd(DOMAIN Fetched.data, NamesIn(storage))), save_ok \in BOOLEAN :
        SynchronizeSaving(Fetched, order, save_ok)

ProcessSaveStep ==
    \E save_ok \in BOOLEAN : ProcessRecordSaving(0, 0, "true", "ok", save_ok)

FinishSaveStep == \E save_ok \in BOOLEAN : FinishProcessSaving(save_ok)

NextSave == SynchronizeSaveStep \/ ProcessSaveStep \/ FinishSaveStep \/ SleepStep

SpecSave == InitSave /\ [][NextSave]_vars

\* C23: when a cycle starts after a pass, the registry it loads is the list
\* the pass before held in memory when it ended (trades_to_keep), whether or
\* not the writes of that pass succeeded.
C23_NextCycleLoadsMemoryState ==
    (pc = "sync" /\ cycle > 1 /\ active_trades # <<>>) => storage = trades_to_keep

----------------------------------------------------------------------------
(* The loop started on a registry file that is missing or cannot be         *)
(* decoded; for a file that cannot be decoded, storage is the list whose    *)
(* dump the file was meant to hold                                          *)

InitLoad ==
    /\ InitFile(StatusMaps(SaveSnaps, SaveSnaps), Registries, {"ok", "missing", "corrupt"})
    /\ file_state = "missing" => storage = <<>>

SpecLoad == InitLoad /\ [][Next]_vars

\* C24: a synchronize step that finds the file missing or not decodable does
\* not raise: it goes on as with an empty registry, so the list it hands on
\* and saves holds exactly one new record per instance of the remote map.
C24_LoadFailsOpen ==
    [][(pc = "sync" /\ file_state # "ok") =>
          /\ pc' \in {"process", "sleep"}
          /\ Len(active_trades') = Cardinality(DOMAIN statuses)
          /\ NamesIn(active_trades') = DOMAIN statuses
          /\ \A k \in DOMAIN active_trades' :
                active_trades'[k] =
                    NewTrade(NameOf(active_trades'[k]), statuses[NameOf(active_trades'[k])])
          /\ storage' = active_trades'
          /\ file_state' = "ok"]_vars

\* the first pass runs on a list without a record that the damaged file was
\* meant to hold
C24_Witness ==
    /\ pc = "process"
    /\ cycle = 1
    /\ pass_log = <<>>
    /\ \E n \in initial_names : n \notin NamesIn(active_trades)

----------------------------------------------------------------------------
(* The process stopping inside save_trades: open(file_path, 'w') has        *)
(* emptied the file and json.dump has not written the whole list yet        *)

StopInSave ==
    /\ pc = "process"
    /\ idx > Len(active_trades)
    /\ file_state' = "corrupt"
    /\ pc' = "stopped"
    /\ UNCHANGED <<statuses, storage, active_trades, bot_statuses_data, idx,
                   trades_to_keep, last_active, processed_logs, now, cycle, sent,
                   archive_calls, pass_log, dispatched, heartbeats, removed_ever,
                   readded, faults, initial_names, pass_times, fetch_status, closed,
                   in_general, in_error, out_reason>>

NextStop == Next \/ StopInSave

SpecStop == Init /\ [][NextStop]_vars

\* C25: at every instant the registry file holds a complete list (the one
\* written last), never an empty or partial dump.
C25_SaveAtomic == file_state = "ok"

----------------------------------------------------------------------------
(* The order of the steps of run *)

\* C26: the steps of the one loop follow each other in the order synchronize,
\* process, sleep: a pass starts only from a synchronize step that has saved
\* the list the pass works on, the records are taken one after the other, and
\* a synchronize step starts only from the sleep that follows a finished pass.
C26_StepsInOrder ==
    [][/\ pc = "sync" => pc' \in {"process", "sleep"}
       /\ (pc = "sync" /\ pc' = "process") =>
             /\ storage' = active_trades'
             /\ idx' = 1
             /\ trades_to_keep' = <<>>
       /\ pc = "process" => pc' \in {"process", "sleep", "exited"}
       /\ (pc = "process" /\ pc' = "process") => idx' = idx + 1
       /\ (pc = "process" /\ pc' = "sleep") => idx > Len(active_trades)
       /\ pc = "sleep" => pc' = "sync"
       /\ pc' = "sync" => (pc = "sleep" /\ idx > Len(active_trades))]_vars

\* the third pass is under way on a list that the synchronize step before it
\* extended and saved
C26_Witness ==
    /\ pc = "process"
    /\ cycle = MaxCycles
    /\ idx = 2
    /\ Len(active_trades) = 2
    /\ readded # {}

----------------------------------------------------------------------------
(* Cancellation of the task that runs the loop: CancelledError is raised at *)
(* the await the task is suspended in and is caught by run only             *)

\* the task is cancelled while it waits in get_all_bot_statuses or in
\* asyncio.sleep
CancelIdle ==
    /\ pc \in {"sync", "sleep"}
    /\ pc' = "cancelled"
    /\ closed' = CloseOnExit(closed)
    /\ UNCHANGED <<statuses, storage, active_trades, bot_statuses_data, idx,
                   trades_to_keep, last_active, processed_logs, now, cycle, sent,
                   archive_calls, pass_log, dispatched, heartbeats, removed_ever,
                   readded, faults, initial_names, pass_times, fetch_status,
                   file_state, in_general, in_error, out_reason>>

\* the task is cancelled while a record is processed: in the archive call
\* (raise_at = 0) or in the notify call of number raise_at.  "except
\* Exception" does not catch CancelledError, so nothing of the pass runs after
\* that await.
CancelInRecord(raise_at, archive_ok) ==
    /\ pc = "process"
    /\ idx <= Len(active_trades)
    /\ HasName(active_trades[idx])
    /\ (raise_at = 0) <=> (archive_ok = "raise")
    /\ \E r \in {ProcessTrade(active_trades[idx], bot_statuses_data, processed_logs, last_active, storage, now, raise_at, 0, "true", archive_ok)} :
          /\ r.raised
          /\ sent' = sent \o SubSeq(r.calls, 1, Len(r.calls) - 1)
          /\ archive_calls' = archive_calls \o r.archives
          /\ storage' = r.storage
          /\ processed_logs' = r.processed_logs
          /\ last_active' = r.last_active
          /\ dispatched' = dispatched \o
                TradeIds(OfType(SubSeq(r.calls, 1, Len(r.calls) - 1), "trade_update"))
    /\ pc' = "cancelled"
    /\ closed' = CloseOnExit(closed)
    /\ UNCHANGED <<statuses, active_trades, bot_statuses_data, idx, trades_to_keep,
                   now, cycle, pass_log, heartbeats, removed_ever, readded, faults,
                   initial_names, pass_times, fetch_status, file_state, in_general,
                   in_error, out_reason>>

CancelStep ==
    \E raise_at \in 0..MaxCalls, archive_ok \in {"ok", "raise"} :
        CancelInRecord(raise_at, archive_ok)

NextCancel == Next \/ CancelIdle \/ CancelStep

SpecCancel == Init /\ [][NextCancel]_vars

\* C27: when the loop has ended by cancellation, the step that was running
\* has run to its end: no archive call was cut short and the pass has taken
\* every record and made its final save.
C27_CancelBetweenSteps ==
    pc = "cancelled" =>
        /\ idx > Len(active_trades)
        /\ \A k \in DOMAIN archive_calls : archive_calls[k].ok # "raise"
        /\ \A k \in DOMAIN sent : sent[k].outcome # "raise"

\* C28: while the loop runs the client has not been closed; once the loop has
\* ended, by cancellation or by an exception, it has been closed exactly once,
\* and no step of the loop follows.
C28_ClosedOnceOnExit ==
    /\ [](closed = IF pc \in {"cancelled", "exited"} THEN 1 ELSE 0)
    /\ [][pc \notin {"cancelled", "exited"}]_vars

\* the loop was cancelled in the middle of a pass, after an archive call
C28_Witness ==
    /\ pc = "cancelled"
    /\ closed = 1
    /\ idx <= Len(active_trades)
    /\ archive_calls # <<>>

----------------------------------------------------------------------------
(* The order of the trade updates of one pass *)

\* the positions of a log list whose entry is a fill with the given identifier
FillPositions(instance_name, general_logs, id) ==
    {k \in DOMAIN general_logs :
        /\ TradeMatch(MsgOf(general_logs[k])).matched
        /\ TradeIdentifier(instance_name, TradeMatch(MsgOf(general_logs[k])),
                           TimestampOf(general_logs[k])) = id}

\* the first of them
FirstFill(instance_name, general_logs, id) ==
    CHOOSE k \in FillPositions(instance_name, general_logs, id) :
        \A j \in FillPositions(instance_name, general_logs, id) : k <= j

\* C29: the trade updates handed to notify in one pass for an instance follow
\* the order of the log list: of two of them, the one handed over first
\* belongs to the fill that comes first in the list.
C29_TradeUpdatesInLogOrder ==
    \A i, j \in DOMAIN OfType(sent, "trade_update") :
        i < j =>
            /\ FillPositions(BotA, bot_statuses_data[BotA].general_logs,
                             TradeIds(OfType(sent, "trade_update"))[i]) # {}
            /\ FillPositions(BotA, bot_statuses_data[BotA].general_logs,
                             TradeIds(OfType(sent, "trade_update"))[j]) # {}
            /\ FirstFill(BotA, bot_statuses_data[BotA].general_logs,
                         TradeIds(OfType(sent, "trade_update"))[i])
                 < FirstFill(BotA, bot_statuses_data[BotA].general_logs,
                             TradeIds(OfType(sent, "trade_update"))[j])

\* a pass over a list with a SELL fill before a BUY fill has handed over the
\* SELL update, then the BUY update
C29_Witness ==
    /\ PassDone
    /\ Len(OfType(sent, "trade_update")) = 2
    /\ OfType(sent, "trade_update")[1].trade_type = "SELL"
    /\ OfType(sent, "trade_update")[2].trade_type = "BUY"
    /\ Len(bot_statuses_data[BotA].general_logs) = 3

----------------------------------------------------------------------------
(* The loop on one instance whose log list grows between the passes *)

FillLogs == {<<>>, <<[msg |-> MsgBuyX]>>}

InitFills ==
    InitWith({[n \in {BotA} |-> Snapshot(s, g, <<>>)] : s \in Phases, g \in FillLogs},
             {<<Stored(BotA, "777", "ETH-USDC")>>})

\* the remote side has logged one more line when the next pass asks
RemoteAppends ==
    /\ pc = "sleep"
    /\ Len(statuses[BotA].general_logs) < MaxTradeLogLen
    /\ \E l \in {[msg |-> MsgBuyX], Line(MsgSell, "t2")} :
          statuses' = [statuses EXCEPT ![BotA].general_logs = Append(@, l)]
    /\ UNCHANGED <<storage, pc, active_trades, bot_statuses_data, idx,
                   trades_to_keep, last_active, processed_logs, now, cycle, sent,
                   archive_calls, pass_log, dispatched, heartbeats, removed_ever,
                   readded, faults, initial_names, pass_times, fetch_status,
                   file_state, closed, in_general, in_error, out_reason>>

NextFills == Next \/ RemoteAppends

SpecFills == InitFills /\ [][NextFills]_vars

\* C30: after a pass in which processing the record raised nothing, whatever
\* status the instance is reported with and whether or not the pass sent a
\* heartbeat, every fill of the log list the pass was given has been handed to
\* notify, in this pass or in an earlier one, and none is left unseen.
C30_TradeEventsNotThrottled ==
    (PassDone /\ BotA \in NamesIn(active_trades) /\ ~RaisedFor(BotA)) =>
        /\ FillKeys(BotA, bot_statuses_data[BotA].general_logs)
              \subseteq {dispatched[k] : k \in DOMAIN dispatched}
        /\ FillKeys(BotA, bot_statuses_data[BotA].general_logs)
              \subseteq SeenBefore(processed_logs, BotA)

\* the second pass over a running instance sent no heartbeat, the one of the
\* first pass being 10 seconds old, and handed over the fill logged since
C30_Witness ==
    /\ PassDone
    /\ cycle = 2
    /\ faults = 0
    /\ PhaseOf(BotA) = "running"
    /\ Len(heartbeats) = 1
    /\ OfType(sent, "bot_status_update") = <<>>
    /\ Len(OfType(sent, "trade_update")) = 1
    /\ Len(dispatched) = 2

----------------------------------------------------------------------------
(* TelegramNotifier.notify called on its own: the messenger method each     *)
(* message type is routed to                                                *)

\* the two modules that define TelegramNotifier
NotifierModules == {"bot_monitor", "telegram_notifier"}

KnownMessageTypes ==
    {"simple", "bot_status_update", "bot_not_found_alert", "trade_update", "error"}

MessageTypes == KnownMessageTypes \cup {"warning"}

\* The messenger method notify awaits, or the exception it raises before
\* awaiting any. bot_monitor imports the class datetime (from datetime import
\* datetime), so datetime.datetime.now() in the print of its else branch
\* raises AttributeError; telegram_notifier imports the module.
notify(module, message_type) ==
    CASE message_type = "simple" -> "send_simple_message"
      [] message_type = "bot_status_update" -> "send_bot_status_update"
      [] message_type = "bot_not_found_alert" -> "send_bot_not_found_alert"
      [] message_type = "trade_update" -> "send_trade_update"
      [] message_type = "error" -> "send_error_message"
      [] OTHER -> IF module = "bot_monitor"
                  THEN "AttributeError"
                  ELSE "send_simple_message"

NotifyCall ==
    /\ pc = "notify"
    /\ Len(sent) < MaxCalls
    /\ \E module \in NotifierModules, message_type \in MessageTypes :
          sent' = Append(sent, [message_type |-> message_type, chat_id |-> "777",
                                module |-> module,
                                method |-> notify(module, message_type)])
    /\ UNCHANGED <<statuses, storage, pc, active_trades, bot_statuses_data, idx,
                   trades_to_keep, last_active, processed_logs, now, cycle,
                   archive_calls, pass_log, dispatched, heartbeats, removed_ever,
                   readded, faults, initial_names, pass_times, fetch_status,
                   file_state, closed, in_general, in_error, out_reason>>

InitNotify ==
    /\ statuses = EmptyMap
    /\ storage = <<>>
    /\ pc = "notify"
    /\ active_trades = <<>>
    /\ bot_statuses_data = EmptyMap
    /\ idx = 1
    /\ trades_to_keep = <<>>
    /\ last_active = EmptyMap
    /\ processed_logs = EmptyMap
    /\ now = 0
    /\ cycle = 1
    /\ sent = <<>>
    /\ archive_calls = <<>>
    /\ pass_log = <<>>
    /\ dispatched = <<>>
    /\ heartbeats = <<>>
    /\ removed_ever = {}
    /\ readded = {}
    /\ faults = 0
    /\ initial_names = {}
    /\ pass_times = <<>>
    /\ fetch_status = None
    /\ file_state = "ok"
    /\ closed = 0
    /\ in_general = <<>>
    /\ in_error = <<>>
    /\ out_reason = None

NextNotify == NotifyCall

SpecNotify == InitNotify /\ [][NextNotify]_vars

\* C31: a notification whose message type is not one of the recognized ones
\* is handed to the messenger as a plain-text message (send_simple_message):
\* it is not dropped and the call does not end in an exception.
C31_UnknownKindSentAsSimple ==
    \A i \in DOMAIN sent :
        sent[i].message_type \notin KnownMessageTypes =>
            sent[i].method = "send_simple_message"

----------------------------------------------------------------------------
\* C32: an instance the first fetch reports not_found and the registry file
\* did not hold is, after the first pass, when processing its record raised
\* nothing: a record of the pass (added by synchronize), the subject of
\* exactly one archive call and of exactly one not-found alert, and absent
\* from the persisted registry.
C32_NotFoundOnFirstSight ==
    \A instance_name \in DOMAIN bot_statuses_data :
        ( /\ PassDone
          /\ cycle = 1
          /\ instance_name \notin initial_names
          /\ PhaseOf(instance_name) = "not_found"
          /\ ~RaisedFor(instance_name) ) =>
            /\ instance_name \in NamesIn(active_trades)
            /\ Cardinality(ArchiveCallsFor(instance_name)) = 1
            /\ Cardinality(SentFor(instance_name, "bot_not_found_alert")) = 1
            /\ instance_name \notin NamesIn(storage)

\* bot_b, unknown to an empty registry and reported not_found, was added,
\* archived and announced in the first pass and is gone from the file
C32_Witness ==
    /\ PassDone
    /\ cycle = 1
    /\ initial_names = {}
    /\ BotB \in DOMAIN bot_statuses_data
    /\ PhaseOf(BotB) = "not_found"
    /\ ~RaisedFor(BotB)
    /\ BotB \in NamesIn(active_trades)
    /\ Cardinality(ArchiveCallsFor(BotB)) = 1
    /\ Cardinality(SentFor(BotB, "bot_not_found_alert")) = 1
    /\ BotB \notin NamesIn(storage)

----------------------------------------------------------------------------
(* The three-cycle run of simulate_bot_monitor_cycles: three instances      *)
(* start running, one completes its trade, the other two disappear          *)

BotC == "bot_c"

ScenarioBots == {BotA, BotB, BotC}

\* which cycle of the run a remote map belongs to
Stage(all_bot_statuses) ==
    IF \E n \in DOMAIN all_bot_statuses : all_bot_statuses[n].status = "not_found"
    THEN 3
    ELSE IF \E n \in DOMAIN all_bot_statuses : all_bot_statuses[n].status = "stopped"
         THEN 2
         ELSE 1

\* The control plane between two cycles. After the first, one instance is
\* reported stopped with the completion line in its log; after the second,
\* the two others are reported not_found and the archived one is either no
\* longer listed or listed as before.
RemoteTurns ==
    /\ pc = "sleep"
    /\ Stage(statuses) = cycle
    /\ cycle < 3
    /\ \/ /\ cycle = 1
          /\ \E c \in ScenarioBots :
                statuses' = [statuses EXCEPT ![c] =
                    Snapshot("stopped",
                             <<Line(MsgStarting, "t1"), Line(MsgClosed, "t2")>>, <<>>)]
       \/ /\ cycle = 2
          /\ \E listed \in BOOLEAN :
                statuses' =
                    [n \in {m \in DOMAIN statuses :
                              listed \/ statuses[m].status = "running"} |->
                        IF statuses[n].status = "running"
                        THEN Snapshot("not_found", <<>>, <<>>)
                        ELSE statuses[n]]
    /\ UNCHANGED <<storage, pc, active_trades, bot_statuses_data, idx,
                   trades_to_keep, last_active, processed_logs, now, cycle, sent,
                   archive_calls, pass_log, dispatched, heartbeats, removed_ever,
                   readded, faults, initial_names, pass_times, fetch_status,
                   file_state, closed, in_general, in_error, out_reason>>

\* the next cycle starts once the control plane has moved on
ScenarioSleep == Stage(statuses) = cycle + 1 /\ Sleep(CheckInterval)

InitScenario ==
    InitWith({[n \in ScenarioBots |->
                  Snapshot("running", <<Line(MsgStarting, "t1")>>, <<>>)]},
             {<<>>})

NextScenario ==
    SynchronizeStep \/ ProcessCleanStep \/ FinishProcess \/ RemoteTurns \/ ScenarioSleep

SpecScenario == InitScenario /\ [][NextScenario]_vars

\* C33: in the three-cycle run from an empty registry, with no call raising:
\* the first pass ends with three records, no archive call and three status
\* notifications; the second, in which one instance is reported stopped with
\* "All positions closed.", ends with that instance archived once, announced
\* once as completed and removed, the other two kept and nothing else sent;
\* the third, in which the other two are reported not_found, ends with each
\* of them archived once, two not-found alerts and an empty registry.
C33_ThreeCycleScenario ==
    PassDone =>
        /\ cycle = 1 =>
              /\ Len(storage) = 3
              /\ NamesIn(storage) = ScenarioBots
              /\ archive_calls = <<>>
              /\ Len(OfType(sent, "bot_status_update")) = 3
              /\ Len(sent) = 3
        /\ cycle = 2 =>
              \E c \in ScenarioBots :
                  /\ bot_statuses_data[c].status = "stopped"
                  /\ Len(storage) = 2
                  /\ NamesIn(storage) = ScenarioBots \ {c}
                  /\ Len(archive_calls) = 1
                  /\ Cardinality(ArchiveCallsFor(c)) = 1
                  /\ Cardinality(TerminalNoticesFor(c)) = 1
                  /\ Len(sent) = 1
        /\ cycle = 3 =>
              /\ storage = <<>>
              /\ Cardinality({n \in DOMAIN bot_statuses_data :
                                bot_statuses_data[n].status = "not_found"}) = 2
              /\ \A n \in DOMAIN bot_statuses_data :
                    bot_statuses_data[n].status = "not_found" =>
                        /\ Cardinality(ArchiveCallsFor(n)) = 1
                        /\ Cardinality(SentFor(n, "bot_not_found_alert")) = 1
              /\ Len(OfType(sent, "bot_not_found_alert")) = 2

\* the third pass is over: bot_c was archived in the second, bot_a and bot_b
\* in this one, and the registry is empty
C33_Witness ==
    /\ PassDone
    /\ cycle = 3
    /\ BotC \notin DOMAIN bot_statuses_data
    /\ Len(archive_calls) = 2
    /\ Len(OfType(sent, "bot_not_found_alert")) = 2
    /\ removed_ever = ScenarioBots
    /\ storage = <<>>

----------------------------------------------------------------------------
HasError(log_entry) == PhrasesIn(Lower(MsgOf(log_entry))) \cap ErrorPhrases # {}

\* C34: when some general log line holds a completion phrase or the stop
\* phrase, the classifier returns Trade Completed or Manual Stop whatever the
\* error logs hold; when none does and some error line holds "error" or
\* "exception", it returns "Error: " followed by the first 100 characters of
\* the lower-cased text of the most recent such line and "..."; when none
\* does and no error line holds either word, it returns Unknown Reason.
C34_ErrorLogsOnlyWithoutGeneralMatch ==
    pc = "classified" =>
        /\ (\E i \in DOMAIN in_general :
               HasCompletion(in_general[i]) \/ HasStop(in_general[i]))
             => out_reason \in {TradeCompleted, ManualStop}
        /\ (\A i \in DOMAIN in_general :
               ~HasCompletion(in_general[i]) /\ ~HasStop(in_general[i]))
             => /\ \A j \in DOMAIN in_error :
                      ( /\ HasError(in_error[j])
                        /\ \A k \in DOMAIN in_error : k > j => ~HasError(in_error[k]) )
                      => out_reason =
                            "Error: " \o First100(Lower(MsgOf(in_error[j]))) \o "..."
                /\ (\A j \in DOMAIN in_error : ~HasError(in_error[j]))
                      => out_reason = UnknownReason

\* no general line matched, and of two error lines the later, 134 characters
\* long, gave the reason
C34_Witness ==
    /\ pc = "classified"
    /\ in_general = <<Line(MsgStarting, "t1")>>
    /\ in_error = <<Line(MsgException, "t1"), Line(MsgLongError, "t1")>>
    /\ out_reason = "Error: error: order book stream for eth-usdc disconnected, reconnect attempt 5 of 5 failed; the strategy ca..."

----------------------------------------------------------------------------
(* An instance whose reported phase changes from one cycle to the next,     *)
(* next to one that keeps running                                           *)

TurnSnaps ==
    { Snapshot("running", <<>>, <<>>),
      Snapshot("stopped", <<Line(MsgStopping, "t1")>>, <<>>),
      Snapshot("not_found", <<>>, <<>>) }

TurnMaps ==
    {[n \in {BotA, BotB} |-> IF n = BotA THEN a ELSE Snapshot("running", <<>>, <<>>)] :
        a \in TurnSnaps}

InitTurns == InitWith(TurnMaps, {<<Stored(BotA, "777", "ETH-USDC")>>})

\* the control plane reports another phase for bot_a
RemoteChanges ==
    /\ pc = "sleep"
    /\ cycle < MaxCycles
    /\ statuses' \in TurnMaps \ {statuses}
    /\ UNCHANGED <<storage, pc, active_trades, bot_statuses_data, idx,
                   trades_to_keep, last_active, processed_logs, now, cycle, sent,
                   archive_calls, pass_log, dispatched, heartbeats, removed_ever,
                   readded, faults, initial_names, pass_times, fetch_status,
                   file_state, closed, in_general, in_error, out_reason>>

\* the next pass starts one check interval or one heartbeat period later
TurnSleep == \E seconds \in {CheckInterval, HeartbeatSeconds} : Sleep(seconds)

NextTurns ==
    SynchronizeStep \/ ProcessStep \/ FinishProcess \/ RemoteChanges \/ TurnSleep

SpecTurns == InitTurns /\ [][NextTurns]_vars

\* self._last_active_message_time.get(instance_name), -1 standing for None
Stamp(instance_name) ==
    IF instance_name \in DOMAIN last_active THEN last_active[instance_name] ELSE -1

\* the step processed the record of the instance and notify returned from a
\* running status update for it
BeatSentFor(instance_name) ==
    /\ pc = "process"
    /\ idx <= Len(active_trades)
    /\ NameOf(active_trades[idx]) = instance_name
    /\ Len(heartbeats') = Len(heartbeats) + 1
    /\ heartbeats'[Len(heartbeats')] = [instance_name |-> instance_name, at |-> now]

\* the step processed the record of the instance as stopped or not_found and
\* notify returned from its status update or alert
GoneNoticeSentFor(instance_name) ==
    /\ pc = "process"
    /\ idx <= Len(active_trades)
    /\ NameOf(active_trades[idx]) = instance_name
    /\ Len(sent') = Len(sent) + 1
    /\ \/ /\ sent'[Len(sent')].message_type = "bot_status_update"
          /\ sent'[Len(sent')].status = "stopped"
       \/ sent'[Len(sent')].message_type = "bot_not_found_alert"
    /\ sent'[Len(sent')].instance_name = instance_name
    /\ sent'[Len(sent')].outcome # "raise"

\* C35 as stated: the timestamp of an instance changes only in a step that
\* sent a running status update for it, and then becomes the clock value of
\* the cycle.
C35_StampOnlyOnHeartbeat ==
    [][\A n \in {BotA, BotB} :
          Stamp(n)' # Stamp(n) => (BeatSentFor(n) /\ Stamp(n)' = now)]_vars

\* C35: the timestamp of an instance changes only in a step that processed
\* the record of that instance, and either notify returned from a running
\* status update for it and the timestamp becomes the clock value of the
\* cycle, or the instance was handled as stopped or not_found, notify returned
\* from that notification and the timestamp is cleared; a step that sends no
\* such notification, a suppressed heartbeat included, and a step that handles
\* another instance leave it unchanged.
C35_StampOnHeartbeatOrGone ==
    [][\A n \in {BotA, BotB} :
          Stamp(n)' # Stamp(n) =>
              \/ BeatSentFor(n) /\ Stamp(n)' = now
              \/ GoneNoticeSentFor(n) /\ Stamp(n)' = -1]_vars

\* the second pass, 10 seconds after the first, suppressed the heartbeat of
\* both instances: the timestamps are those of the first pass
C35_Witness ==
    /\ PassDone
    /\ cycle = 2
    /\ now = CheckInterval
    /\ PhaseOf(BotA) = "running"
    /\ sent = <<>>
    /\ Stamp(BotA) = 0
    /\ Stamp(BotB) = 0

----------------------------------------------------------------------------
\* the step processed the record of the instance, reported running, and
\* nothing raised
RunningHandled(instance_name) ==
    /\ pc = "process"
    /\ idx <= Len(active_trades)
    /\ NameOf(active_trades[idx]) = instance_name
    /\ StatusResponse(bot_statuses_data, instance_name).status = "running"
    /\ Len(pass_log') = Len(pass_log) + 1
    /\ ~pass_log'[Len(pass_log')].raised

\* C36: after a pass that handled an instance as stopped or not_found and
\* raised nothing for it, the instance has no heartbeat timestamp; and a step
\* that handles a running instance without a timestamp, raising nothing,
\* sends its running status update, whatever the time since the previous one.
C36_ClearedStampSendsAtOnce ==
    /\ [](PassDone =>
            \A n \in NamesIn(active_trades) :
                (PhaseOf(n) \in {"stopped", "not_found"} /\ ~RaisedFor(n)) =>
                    Stamp(n) = -1)
    /\ [][\A n \in {BotA, BotB} :
            (RunningHandled(n) /\ Stamp(n) = -1) => BeatSentFor(n)]_vars

\* passes at 0, 10 and 20 seconds, bot_a never archived: it was running,
\* then stopped, then running again, and its running status update was sent
\* at 0 and again at 20, while that of bot_b was sent at 0 only
C36_Witness ==
    /\ PassDone
    /\ pass_times = <<0, 10, 20>>
    /\ removed_ever = {}
    /\ PhaseOf(BotA) = "running"
    /\ {heartbeats[k].at : k \in BeatsOf(BotA)} = {0, 20}
    /\ {heartbeats[k].at : k \in BeatsOf(BotB)} = {0}
    /\ Stamp(BotA) = 20

----------------------------------------------------------------------------
\* C37: after every pass, whatever the cycle and the time since the last
\* one, an instance reported stopped whose logs do not classify as Trade
\* Completed and whose processing raised nothing has been sent exactly one
\* stopped status update in that pass, carrying the classified reason, and
\* its record is kept.
C37_StoppedNoticeEveryCycle ==
    PassDone =>
        \A n \in NamesIn(active_trades) :
            ( /\ PhaseOf(n) = "stopped"
              /\ ReasonOf(n) # TradeCompleted
              /\ ~RaisedFor(n) ) =>
                /\ Cardinality(SentFor(n, "bot_status_update")) = 1
                /\ \A k \in SentFor(n, "bot_status_update") :
                      sent[k].status = "stopped" /\ sent[k].stop_reason = ReasonOf(n)
                /\ n \in NamesIn(storage)

\* the third pass in a row, 20 seconds after the first and with no gateway
\* fault so far, over bot_a reported stopped by a manual stop: its stopped
\* status update was sent once more
C37_Witness ==
    /\ PassDone
    /\ cycle = 3
    /\ now = 2 * CheckInterval
    /\ faults = 0
    /\ BotA \in NamesIn(active_trades)
    /\ PhaseOf(BotA) = "stopped"
    /\ ReasonOf(BotA) = ManualStop
    /\ Cardinality(SentFor(BotA, "bot_status_update")) = 1
    /\ BotA \in NamesIn(storage)

----------------------------------------------------------------------------
\* the trade_update calls of the pass that notify raised from
RaisedFills == {k \in DOMAIN sent :
                  sent[k].message_type = "trade_update" /\ sent[k].outcome = "raise"}

\* the notify calls the step added
NewCalls == SubSeq(sent', Len(sent) + 1, Len(sent'))

\* C38: after a pass in which notify raised for a fill of an instance, the
\* key of that fill is not in the dedup set of the instance, every later call
\* of the pass for that instance is the error notification of the except
\* clause (no later fill, no status update, no alert), no archive call was
\* made for it and its record is in the persisted registry; and a step that
\* processes a record without raising hands every fill of its log whose key
\* is not in the dedup set to notify, so the fill is dispatched again in the
\* next cycle.
C38_KeyRecordedAfterNotify ==
    /\ [](PassDone =>
            \A k \in RaisedFills :
                /\ TradeIds(<<sent[k]>>)[1]
                      \notin SeenBefore(processed_logs, sent[k].instance_name)
                /\ \A j \in DOMAIN sent :
                      (j > k /\ "instance_name" \in DOMAIN sent[j]
                             /\ sent[j].instance_name = sent[k].instance_name)
                        => sent[j].message_type = "error"
                /\ ArchiveCallsFor(sent[k].instance_name) = {}
                /\ sent[k].instance_name \in NamesIn(storage))
    /\ [][(/\ pc = "process"
           /\ idx <= Len(active_trades)
           /\ HasName(active_trades[idx])
           /\ Len(pass_log') = Len(pass_log) + 1
           /\ ~pass_log'[Len(pass_log')].raised)
          => \A id \in FillKeys(NameOf(active_trades[idx]),
                     StatusResponse(bot_statuses_data,
                                    NameOf(active_trades[idx])).general_logs)
                   \ SeenBefore(processed_logs, NameOf(active_trades[idx])) :
                 \E c \in DOMAIN OfType(NewCalls, "trade_update") :
                     TradeIds(OfType(NewCalls, "trade_update"))[c] = id]_vars

\* notify raised for the only fill of bot_a in the first pass; the second
\* pass has handed the same fill to notify again and recorded its key
C38_Witness ==
    /\ PassDone
    /\ cycle = 2
    /\ faults = 1
    /\ Len(dispatched) = 2
    /\ dispatched[1] = dispatched[2]
    /\ SeenBefore(processed_logs, BotA) = {dispatched[1]}
    /\ BotA \in NamesIn(storage)

----------------------------------------------------------------------------
\* C39: after a pass, a named record of the pass that is not in the persisted
\* registry had the archive operation invoked for it and notify returned from
\* its terminal notification (the Trade Completed status update or the
\* not-found alert); a record whose processing raised, in the archive call or
\* in the terminal notification, is in the persisted registry; and every step
\* that processes a record reported terminal invokes the archive operation
\* for it, so a record kept that way is archived again in the next cycle
\* that reports it terminal.
C39_RemovedOnlyAfterArchiveAndNotice ==
    /\ [](PassDone =>
            \A i \in Tracked :
                /\ NameOf(active_trades[i]) \notin NamesIn(storage) =>
                      /\ ArchiveCallsFor(NameOf(active_trades[i])) # {}
                      /\ \E k \in TerminalNoticesFor(NameOf(active_trades[i])) :
                            sent[k].outcome # "raise"
                /\ RaisedFor(NameOf(active_trades[i])) => InRegistry(active_trades[i]))
    /\ [][(/\ pc = "process"
           /\ idx <= Len(active_trades)
           /\ HasName(active_trades[idx])
           /\ Terminal(NameOf(active_trades[idx]))
           /\ Len(pass_log') = Len(pass_log) + 1)
          => /\ Len(archive_calls') = Len(archive_calls) + 1
             /\ archive_calls'[Len(archive_calls')].instance_name
                   = NameOf(active_trades[idx])]_vars

\* bot_a, reported not_found in both cycles, was kept by the first pass, in
\* which the archive call or the alert raised, and was archived again,
\* announced and removed by the second
C39_Witness ==
    /\ PassDone
    /\ cycle = 2
    /\ DOMAIN statuses = {BotA}
    /\ PhaseOf(BotA) = "not_found"
    /\ readded = {}
    /\ RaisedFor(BotA) = FALSE
    /\ BotA \in NamesIn(active_trades)
    /\ BotA \in initial_names
    /\ Cardinality(ArchiveCallsFor(BotA)) = 1
    /\ Cardinality(SentFor(BotA, "bot_not_found_alert")) = 1
    /\ BotA \notin NamesIn(storage)

----------------------------------------------------------------------------
\* C40: from the save of synchronize on, through the pass and after it was
\* interrupted by a cancellation or by an exception leaving it, the registry
\* file holds every named record of the pass for which the archive operation
\* has not been invoked.
C40_UnarchivedStaysPersisted ==
    pc \in {"process", "cancelled", "exited"} =>
        \A i \in Tracked :
            ArchiveCallsFor(NameOf(active_trades[i])) = {} =>
                InRegistry(active_trades[i])

\* the run was cancelled inside the pass after bot_b had been archived and
\* removed from the file: bot_a, not archived, is still in the file, and the
\* final save was not made
C40_Witness ==
    /\ pc = "cancelled"
    /\ Len(active_trades) = 2
    /\ idx <= Len(active_trades)
    /\ ArchiveCallsFor(BotB) # {}
    /\ BotB \notin NamesIn(storage)
    /\ ArchiveCallsFor(BotA) = {}
    /\ BotA \in NamesIn(storage)

====
